---- MODULE Spec2Model ----
(***************************************************************************)
(* State-machine model of the toychain-argos robot controller and of its   *)
(* smart contracts:                                                        *)
(*   - scs/poc.py    connectivity contract (hello_index, peer_index)       *)
(*   - scs/pos.py    lottery contract (market_* and hello_* ratchets)      *)
(*   - controllers/main.py   peering pass and experiment state machine     *)
(* Each part has its own specification (SpecPoc, SpecPos, SpecCtl); the    *)
(* variables of the other parts stay at their initial value.               *)
(***************************************************************************)
EXTENDS Integers, Sequences, FiniteSets, TLC

VARIABLES
    \* ---- contract state (scs/poc.py, scs/pos.py) ----
    num_robots,     \* lp['generic']['num_robots']
    all_hellos,     \* dict neighbor -> list of (sender, timestamp), insertion ordered
    all_peers,      \* dict sender -> list of (peer_id, timestamp), insertion ordered
    connectivity,   \* dict enode -> count (poc)
    lottery,        \* list of enodes, one entry per ticket (pos)
    balances,       \* dict id -> balance, insertion ordered (StateMixin ledger)
    trans_reward,   \* lp['scs']['trans_reward']
    decay,          \* lp['scs']['decay']
    update,         \* lp['scs']['update'], the configured strategy name
    last,           \* the last call made on the contract and its outcome
    \* ---- controller state (controllers/main.py) ----
    consensus,      \* ConsensusClass.__name__
    startFlag,      \* startFlag
    currState,      \* fsm.currState
    prevState,      \* fsm.prevState
    pass_along,     \* fsm.pass_along: the id of the neighbour carried, 0 for None
    txs_hi,         \* txs['hi']: the pending Hello transaction, NoTx for None
    hello_sent,     \* number of Hello transactions passed to w3.send_transaction
    receipts,       \* ids of the Hello transactions that have a receipt on the chain
    w3_peers,       \* w3.peers
    peering_elapsed,\* clocks['peering']: time.time() - tick
    pass,           \* the last peering pass: what it computed, called and sent
    obs,            \* the last control step: what it saw and did
    teardown,       \* destroy(): whether it was called, what it met and attempted
    \* ---- a second node applying the same chain ----
    twin            \* the chain of calls, how far each node has applied it, and
                    \* the contract state of the second node

scvars == <<num_robots, all_hellos, all_peers, connectivity, lottery, balances,
            trans_reward, decay, update, last>>

ctlvars == <<consensus, startFlag, currState, prevState, pass_along, txs_hi,
             hello_sent, receipts, w3_peers, peering_elapsed, pass, obs,
             teardown>>

vars == <<scvars, ctlvars, twin>>

(***************************************************************************)
(* Bounds of the model.                                                    *)
(***************************************************************************)
NumRobots == 3
MaxRecords == 2
MaxTx == 1

\* Timestamps of transactions and blocks; 40 - 30 = 10 puts a greeting exactly
\* on the edge of a decay window.
Times == {10, 40, 55}
\* lp['scs']['decay'] and lp['scs']['trans_reward'] are configuration; a reward
\* other than 1 tells count * reward from count.
DecayChoices == {30, 50}
RewardChoices == {2}

(***************************************************************************)
(* Enodes: toychain's gen_enode / enode_to_id.  The enode of a robot is a  *)
(* value of another type than its id; enode_to_id inverts gen_enode.       *)
(***************************************************************************)
gen_enode(i) == [enode |-> i]

enode_to_id(e) == e.enode

Robots(n) == 1..n

Enodes(n) == {gen_enode(i) : i \in Robots(n)}

(***************************************************************************)
(* Python dicts keep insertion order: a dict is a sequence of <<key,       *)
(* value>> pairs with distinct keys.                                       *)
(***************************************************************************)
Keys(d) == [k \in 1..Len(d) |-> d[k][1]]

KeySet(d) == {d[k][1] : k \in 1..Len(d)}

Idx(d, key) == CHOOSE k \in 1..Len(d) : d[k][1] = key

Get(d, key) == d[Idx(d, key)][2]

\* d[key] = [item]: the list of the key starts over with every record
SetItemFresh(d, key, item) ==
    LET d1 == IF key \in KeySet(d) THEN d ELSE Append(d, <<key, <<>>>>)
    IN  [d1 EXCEPT ![Idx(d1, key)][2] = <<item>>]

\* d.setdefault(key, []) ; d[key].append(item)
SetDefaultAppend(d, key, item) ==
    LET d1 == IF key \in KeySet(d) THEN d ELSE Append(d, <<key, <<>>>>)
    IN  [d1 EXCEPT ![Idx(d1, key)][2] = Append(@, item)]

NumRecords(d) == LET RECURSIVE Sum(_)
                     Sum(k) == IF k = 0 THEN 0 ELSE Len(d[k][2]) + Sum(k - 1)
                 IN  Sum(Len(d))

CountAfterInclusive(lst, cutoff) ==
    Cardinality({k \in 1..Len(lst) : lst[k][2] >= cutoff})

\* len([e for e in lst if e[1] > cutoff])
CountAfter(lst, cutoff) == Cardinality({k \in 1..Len(lst) : lst[k][2] > cutoff})

NoTx == [id |-> 0, neighbor |-> 0]

NoPass == [eligible |-> {}, to_add |-> {}, to_remove |-> {}, called |-> {},
           raised |-> FALSE, addpeer |-> {}, prev |-> "init"]

NoObs == [peering |-> FALSE, raised |-> FALSE, from |-> "", candidates |-> {},
          pending |-> FALSE, hello |-> 0, seen |-> {}]

\* no second node: the chain is empty and nothing is applied
NoTwin == [chain |-> <<>>, a |-> 0, b |-> 0,
           state |-> [all_hellos |-> <<>>, all_peers |-> <<>>,
                      connectivity |-> <<>>, lottery |-> <<>>]]

\* destroy() has not been called
NoTeardown == [called |-> FALSE, blocks |-> 0, debug |-> FALSE, faults |-> {},
               trace |-> <<>>]

\* the controller of a specification of the contracts does not step
IdleController ==
    /\ consensus = "ProofOfConnection"
    /\ startFlag = FALSE
    /\ currState = "IDLE"
    /\ prevState = "IDLE"
    /\ pass_along = 0
    /\ txs_hi = NoTx
    /\ hello_sent = 0
    /\ receipts = {}
    /\ w3_peers = {}
    /\ peering_elapsed = 0
    /\ pass = NoPass
    /\ obs = NoObs
    /\ teardown = NoTeardown

(***************************************************************************)
(* scs/poc.py : the connectivity contract                                  *)
(***************************************************************************)

\* a greeting filed under the robot that sent it
Hello_under_sender(hellos, neighbor, sender, timestamp) ==
    SetDefaultAppend(hellos, sender, <<neighbor, timestamp>>)

\* Contract.Hello: all_hellos.setdefault(neighbor, []) then append (sender, timestamp)
Hello(hellos, neighbor, sender, timestamp) ==
    SetDefaultAppend(hellos, neighbor, <<sender, timestamp>>)

\* Contract.AddPeer: all_peers.setdefault(sender, []) then append (peer_id, timestamp)
AddPeer(peers, peer_id, sender, timestamp) ==
    SetDefaultAppend(peers, sender, <<peer_id, timestamp>>)

\* Contract.hello_index: for every key i of all_hellos, in dict order,
\* connectivity[gen_enode(i)] = number of greetings newer than timestamp - decay
RECURSIVE hello_index_from(_, _, _, _, _)
hello_index_from(conn, hellos, timestamp, dec, k) ==
    IF k > Len(hellos) THEN conn
    ELSE LET i            == hellos[k][1]
             enode        == gen_enode(i)
             valid_hellos == CountAfter(hellos[k][2], timestamp - dec)
         IN  hello_index_from([conn EXCEPT ![enode] = valid_hellos],
                              hellos, timestamp, dec, k + 1)

hello_index_nodecay(conn, hellos, timestamp, dec) ==
    hello_index_from(conn, hellos, timestamp, timestamp + 1, 1)

\* an update that reads the time from the node (the number of calls applied so
\* far on both nodes) on top of the block timestamp
hello_index_node_clock(conn, hellos, timestamp, dec) ==
    hello_index_from(conn, hellos, timestamp + 20 * (twin.a + twin.b), dec, 1)

\* an update that never lowers a score
hello_index_keeps_peak(conn, hellos, timestamp, dec) ==
    LET scored == hello_index_from(conn, hellos, timestamp, dec, 1)
    IN  [e \in DOMAIN conn |-> IF conn[e] > scored[e] THEN conn[e] ELSE scored[e]]

\* an update that scores the greetings inside the window against the expired
\* ones
hello_index_net(conn, hellos, timestamp, dec) ==
    [e \in DOMAIN conn |->
        IF enode_to_id(e) \in KeySet(hellos)
        THEN LET lst == Get(hellos, enode_to_id(e))
             IN  2 * CountAfter(lst, timestamp - dec) - Len(lst)
        ELSE conn[e]]

hello_index(conn, hellos, timestamp, dec) ==
    hello_index_from(conn, hellos, timestamp, dec, 1)

\* the inner loops of Contract.peer_index: the set of other robots whose peer
\* list holds (robot_id, t) with t > timestamp - decay
reciprocal_peers(peers, robot_id, timestamp, dec) ==
    {peers[k][1] : k \in {j \in 1..Len(peers) :
        /\ peers[j][1] # robot_id
        /\ \E m \in 1..Len(peers[j][2]) :
              /\ peers[j][2][m][1] = robot_id
              /\ peers[j][2][m][2] > timestamp - dec}}

\* Contract.peer_index: for every key robot_id of all_peers, in dict order,
\* connectivity[gen_enode(robot_id)] = len(reciprocal_peers)
RECURSIVE peer_index_from(_, _, _, _, _)
peer_index_from(conn, peers, timestamp, dec, k) ==
    IF k > Len(peers) THEN conn
    ELSE LET robot_id == peers[k][1]
             enode    == gen_enode(robot_id)
         IN  peer_index_from(
                [conn EXCEPT ![enode] =
                    Cardinality(reciprocal_peers(peers, robot_id, timestamp, dec))],
                peers, timestamp, dec, k + 1)

peer_index(conn, peers, timestamp, dec) ==
    peer_index_from(conn, peers, timestamp, dec, 1)

\* the names hasattr() finds on a poc Contract
PocMethods == {"Hello", "AddPeer", "get_block_reward", "update_connectivity",
               "hello_index", "peer_index", "none"}

PocAttributes == PocMethods \cup
    {"n", "private", "balances", "all_hellos", "all_peers", "connectivity",
     "trans_reward", "decay", "connectivity_update"}

\* Contract.update_connectivity: the outcome of the dispatch on the configured
\* name: the new connectivity map and the exception raised ("" for none).
\* none(self) takes no block, so getattr(self, "none")(block) is a TypeError,
\* and so is the call of a state variable such as decay (an int).
update_connectivity(conn, hellos, peers, timestamp, dec, name) ==
    IF name \notin PocAttributes
        THEN [connectivity |-> conn, err |-> "", ran |-> 0]
    ELSE IF name = "hello_index"
        THEN [connectivity |-> hello_index(conn, hellos, timestamp, dec),
              err |-> "", ran |-> 1]
    ELSE IF name = "peer_index"
        THEN [connectivity |-> peer_index(conn, peers, timestamp, dec),
              err |-> "", ran |-> 1]
    ELSE [connectivity |-> conn, err |-> "TypeError", ran |-> 0]

\* what `last` records of a call: the method, its arguments, the exception it
\* raised and the value it returned, the ticket counts it found (pre), and how
\* many times in a row it has been made with the same arguments on an
\* unchanged ledger (calls, counted to 2)
NoCall == [op |-> "init", arg |-> 0, sender |-> 0, timestamp |-> 0, ntx |-> 0,
           err |-> "", reward |-> 0, steps |-> <<>>, pre |-> <<>>, calls |-> 0]

\* the values of lp['scs']['update'] explored: the strategies, the default of
\* params.py (no attribute of the contract) and the name of a state variable
PocUpdateNames == {"hello_index", "peer_index", "none", "connectivity_Index", "decay"}

\* Contract.__init__ of scs/poc.py with state_variables = None
InitPoc ==
    /\ num_robots = NumRobots
    /\ all_hellos = <<>>
    /\ all_peers = <<>>
    /\ connectivity = [e \in Enodes(NumRobots) |-> 0]
    /\ lottery = <<>>
    /\ balances = <<>>
    /\ trans_reward \in RewardChoices
    /\ decay \in DecayChoices
    /\ update \in PocUpdateNames
    /\ last = NoCall
    /\ IdleController
    /\ twin = NoTwin

\* a Hello transaction of a block is applied to the contract; the controller
\* greets a radio neighbour, never itself (main.py, State::RANDOM)
PocHello ==
    \E neighbor \in Robots(num_robots), sender \in Robots(num_robots), t \in Times :
        /\ sender # neighbor
        /\ NumRecords(all_hellos) + NumRecords(all_peers) < MaxRecords
        /\ all_hellos' = Hello(all_hellos, neighbor, sender, t)
        /\ last' = [NoCall EXCEPT !.op = "Hello", !.arg = neighbor,
                                  !.sender = sender, !.timestamp = t]
        /\ UNCHANGED <<ctlvars, twin>>
        /\ UNCHANGED <<num_robots, all_peers, connectivity, lottery, balances,
                       trans_reward, decay, update>>

\* an AddPeer transaction of a block is applied to the contract
PocAddPeer ==
    \E peer_id \in Robots(num_robots), sender \in Robots(num_robots), t \in Times :
        /\ NumRecords(all_hellos) + NumRecords(all_peers) < MaxRecords
        /\ all_peers' = AddPeer(all_peers, peer_id, sender, t)
        /\ last' = [NoCall EXCEPT !.op = "AddPeer", !.arg = peer_id,
                                  !.sender = sender, !.timestamp = t]
        /\ UNCHANGED <<ctlvars, twin>>
        /\ UNCHANGED <<num_robots, all_hellos, connectivity, lottery, balances,
                       trans_reward, decay, update>>

\* Contract.get_block_reward of scs/poc.py: update_connectivity(block), then
\* len(block.data) * trans_reward; an exception of the update ends the call
PocGetBlockReward ==
    \E t \in Times, ntx \in 0..MaxTx :
        LET u == update_connectivity(connectivity, all_hellos, all_peers,
                                     t, decay, update)
        IN  /\ connectivity' = u.connectivity
            /\ last' = [NoCall EXCEPT
                          !.op = "get_block_reward", !.timestamp = t, !.ntx = ntx,
                          !.err = u.err,
                          !.reward = IF u.err = "" THEN ntx * trans_reward ELSE 0,
                          !.steps = IF u.err = "" THEN <<"update", "reward">>
                                                  ELSE <<"update">>]
            /\ UNCHANGED <<ctlvars, twin>>
            /\ UNCHANGED <<num_robots, all_hellos, all_peers, lottery, balances,
                           trans_reward, decay, update>>

NextPoc == PocHello \/ PocAddPeer \/ PocGetBlockReward

SpecPoc == InitPoc /\ [][NextPoc]_vars

\* the poc contract configured with hello_index, greeted and updated
InitHelloIndex == InitPoc /\ update = "hello_index"

NextHelloIndex == PocHello \/ PocGetBlockReward

SpecHelloIndex == InitHelloIndex /\ [][NextHelloIndex]_vars

(***************************************************************************)
(* scs/pos.py : the lottery contract                                       *)
(***************************************************************************)
PosRobots == 2
ShareRobots == 3
MaxHellos == 4
MaxShareHellos == 7
MaxFixedHellos == 30
SwarmRobots == 6
MaxSwarmHellos == 10

TicketPrice == 10
HelloPrice == 10
LastDecay == 200
LastPrice == 2

\* Block and greeting timestamps of the lottery contract: 255 - 200 = 55 puts
\* the greetings of time 55 exactly on the edge of the window of a block at 255.
LotteryTimes == {55, 255}

\* configured decay parameters on either side of the window of hello_fixed_last,
\* and block times that tell windows of 100, 200 and 250 apart
WindowDecays == {100, 250}

WindowTimes == {55, 155, 255}

MarketNames == {"market_share", "market_fixed"}

HelloNames == {"hello_shares", "hello_fixed", "hello_fixed_last"}

\* allowed_methods of Contract.update_lottery
AllowedMethods == MarketNames \cup HelloNames

\* self.lottery.count(enode)
Count(lot, enode) == Cardinality({k \in 1..Len(lot) : lot[k] = enode})

\* a removal that drops every occurrence of the enode
ListRemoveEvery(lot, enode) == SelectSeq(lot, LAMBDA x : x # enode)

\* self.lottery.remove(enode): drops the first occurrence
ListRemove(lot, enode) ==
    LET first == CHOOSE k \in 1..Len(lot) :
                    lot[k] = enode /\ \A j \in 1..(k - 1) : lot[j] # enode
    IN  [k \in 1..(Len(lot) - 1) |-> IF k < first THEN lot[k] ELSE lot[k + 1]]

\* while tickets_owned < tickets_allowed: append, tickets_owned += 1
RECURSIVE add_tickets(_, _, _, _)
add_tickets(lot, enode, tickets_owned, tickets_allowed) ==
    IF tickets_owned < tickets_allowed
        THEN add_tickets(Append(lot, enode), enode, tickets_owned + 1, tickets_allowed)
        ELSE [lottery |-> lot, tickets_owned |-> tickets_owned]

\* if tickets_owned + 1 <= tickets_allowed: append, tickets_owned += 1
add_one_ticket(lot, enode, tickets_owned, tickets_allowed) ==
    IF tickets_owned + 1 <= tickets_allowed
        THEN [lottery |-> Append(lot, enode), tickets_owned |-> tickets_owned + 1]
        ELSE [lottery |-> lot, tickets_owned |-> tickets_owned]

remove_tickets_to_zero(lot, enode, tickets_owned, tickets_allowed) ==
    LET RECURSIVE Drop(_, _)
        Drop(l, owned) == IF owned > tickets_allowed
                              THEN Drop(ListRemove(l, enode), owned - 1)
                              ELSE l
    IN  Drop(lot, tickets_owned)

\* while tickets_owned > tickets_allowed and tickets_owned > 1: remove, tickets_owned -= 1
RECURSIVE remove_tickets(_, _, _, _)
remove_tickets(lot, enode, tickets_owned, tickets_allowed) ==
    IF tickets_owned > tickets_allowed /\ tickets_owned > 1
        THEN remove_tickets(ListRemove(lot, enode), enode, tickets_owned - 1,
                            tickets_allowed)
        ELSE lot

\* a ratchet that adds tickets only while the lottery holds fewer than five
ratchet_while_room(lot, enode, tickets_allowed) ==
    LET owned == Count(lot, enode)
        room  == IF Len(lot) < 5 THEN 5 - Len(lot) ELSE 0
        up    == add_tickets(lot, enode, owned,
                             IF tickets_allowed < owned + room
                             THEN tickets_allowed ELSE owned + room)
    IN  remove_tickets(up.lottery, enode, up.tickets_owned, tickets_allowed)

\* a ratchet that adds one ticket more than the target allows
ratchet_past_target(lot, enode, tickets_allowed) ==
    IF Count(lot, enode) <= tickets_allowed
        THEN add_tickets(lot, enode, Count(lot, enode), tickets_allowed + 1).lottery
        ELSE remove_tickets(lot, enode, Count(lot, enode), tickets_allowed)

ratchet_single_step(lot, enode, tickets_allowed) ==
    LET up == add_one_ticket(lot, enode, Count(lot, enode), tickets_allowed)
    IN  remove_tickets(up.lottery, enode, up.tickets_owned, tickets_allowed)

\* the two while loops of market_share, hello_shares, hello_fixed, hello_fixed_last
ratchet(lot, enode, tickets_allowed) ==
    LET up == add_tickets(lot, enode, Count(lot, enode), tickets_allowed)
    IN  remove_tickets(up.lottery, enode, up.tickets_owned, tickets_allowed)

\* market_fixed adding tickets up to the target in one call
ratchet_fixed_all(lot, enode, tickets_allowed) ==
    ratchet(lot, enode, tickets_allowed)

\* the if and the while loop of market_fixed
ratchet_fixed(lot, enode, tickets_allowed) ==
    LET up == add_one_ticket(lot, enode, Count(lot, enode), tickets_allowed)
    IN  remove_tickets(up.lottery, enode, up.tickets_owned, tickets_allowed)

\* sum(self.balances.values()), sum(len(i) for i in self.all_hellos.values())
RECURSIVE SumValues(_, _)
SumValues(d, k) == IF k = 0 THEN 0 ELSE d[k][2] + SumValues(d, k - 1)

RECURSIVE BitLength(_)
BitLength(q) == IF q = 0 THEN 0 ELSE 1 + BitLength(q \div 2)

RECURSIVE GCD(_, _)
GCD(a, b) == IF b = 0 THEN a ELSE GCD(b, a % b)

\* whether the double nearest to market_value / participants lies above the
\* quotient, for the fractions that are whole numbers, halves, quarters or
\* thirds when reduced (up to 4 participants, or 6 participants and an even
\* market value): halves and quarters are exact, thirds are cut after
\* 53 - BitLength(integer part) binary places of 0.0101.. or 0.1010..
QuotientRoundsUp(market_value, participants) ==
    LET g == GCD(market_value, participants)
        t == market_value \div g
    IN  /\ participants \div g = 3
        /\ t >= 3
        /\ LET r == t % 3
               n == 53 - BitLength(t \div 3)
           IN  (r = 1 /\ n % 2 = 1) \/ (r = 2 /\ n % 2 = 0)

\* amount // market_share with market_share = market_value / participants, a
\* float: the floor of the quotient, one less where amount / market_share is a
\* whole number in exact arithmetic and market_share was rounded up
FloorDivShare(amount, market_value, participants) ==
    LET k == (amount * participants) \div market_value
    IN  IF /\ amount > 0
           /\ (amount * participants) % market_value = 0
           /\ QuotientRoundsUp(market_value, participants)
        THEN k - 1 ELSE k

\* the number of tickets of each robot 1..n
TicketCounts(lot, n) == [i \in 1..n |-> Count(lot, gen_enode(i))]

InARow(op, timestamp) ==
    IF last.op = op /\ last.timestamp = timestamp /\ last.calls >= 1 THEN 2 ELSE 1

Done(lot) == [lottery |-> lot, err |-> ""]

Raised(lot, e) == [lottery |-> lot, err |-> e]

\* the for loop of Contract.market_share over self.balances.keys()
RECURSIVE market_share_from(_, _, _, _, _)
market_share_from(lot, bal, market_value, participants, k) ==
    IF k > Len(bal) THEN lot
    ELSE LET enode           == gen_enode(bal[k][1])
             tickets_allowed == FloorDivShare(bal[k][2], market_value, participants)
         IN  market_share_from(ratchet(lot, enode, tickets_allowed),
                               bal, market_value, participants, k + 1)

\* Contract.market_share
market_share(lot, bal, reward) ==
    LET market_value == SumValues(bal, Len(bal))
        participants == Len(bal)
    IN  IF participants = 0 THEN Raised(lot, "ZeroDivisionError")
        ELSE IF market_value < reward * participants THEN Done(lot)
        ELSE IF market_value = 0 THEN Raised(lot, "ZeroDivisionError")
        ELSE Done(market_share_from(lot, bal, market_value, participants, 1))

RECURSIVE market_fixed_from(_, _, _)
market_fixed_from(lot, bal, k) ==
    IF k > Len(bal) THEN lot
    ELSE LET enode           == gen_enode(bal[k][1])
             tickets_allowed == bal[k][2] \div TicketPrice
         IN  market_fixed_from(ratchet_fixed(lot, enode, tickets_allowed), bal, k + 1)

\* Contract.market_fixed
market_fixed(lot, bal) == Done(market_fixed_from(lot, bal, 1))

\* the dict robot -> number of greetings received
HelloCounts(hellos) == [k \in 1..Len(hellos) |-> <<hellos[k][1], Len(hellos[k][2])>>]

RECURSIVE hello_shares_from(_, _, _, _, _)
hello_shares_from(lot, counts, market_value, participants, k) ==
    IF k > Len(counts) THEN lot
    ELSE LET enode           == gen_enode(counts[k][1])
             tickets_allowed == FloorDivShare(counts[k][2], market_value, participants)
         IN  hello_shares_from(ratchet(lot, enode, tickets_allowed),
                               counts, market_value, participants, k + 1)

\* Contract.hello_shares
hello_shares(lot, hellos) ==
    LET counts       == HelloCounts(hellos)
        market_value == SumValues(counts, Len(counts))
        participants == Len(counts)
    IN  IF participants = 0 THEN Raised(lot, "ZeroDivisionError")
        ELSE IF market_value < participants THEN Done(lot)
        ELSE Done(hello_shares_from(lot, counts, market_value, participants, 1))

\* hello_fixed as market_fixed over the greeting counts: one ticket per call
hello_fixed_one_ticket(lot, hellos) == market_fixed(lot, HelloCounts(hellos))

RECURSIVE hello_fixed_from(_, _, _)
hello_fixed_from(lot, hellos, k) ==
    IF k > Len(hellos) THEN lot
    ELSE LET enode           == gen_enode(hellos[k][1])
             tickets_allowed == Len(hellos[k][2]) \div HelloPrice
         IN  hello_fixed_from(ratchet(lot, enode, tickets_allowed), hellos, k + 1)

\* Contract.hello_fixed
hello_fixed(lot, hellos) == Done(hello_fixed_from(lot, hellos, 1))

RECURSIVE hello_fixed_last_from(_, _, _, _)
hello_fixed_last_from(lot, hellos, timestamp, k) ==
    IF k > Len(hellos) THEN lot
    ELSE LET enode           == gen_enode(hellos[k][1])
             valid_hellos    == CountAfter(hellos[k][2], timestamp - LastDecay)
             tickets_allowed == valid_hellos \div LastPrice
         IN  hello_fixed_last_from(ratchet(lot, enode, tickets_allowed),
                                   hellos, timestamp, k + 1)

\* hello_fixed_last with the window of the configured decay
hello_fixed_last_configured(lot, hellos, timestamp) ==
    Done(hello_fixed_last_from(lot, hellos, timestamp + LastDecay - decay, 1))

\* Contract.hello_fixed_last
hello_fixed_last(lot, hellos, timestamp) ==
    Done(hello_fixed_last_from(lot, hellos, timestamp, 1))

\* the strategy method `name` of the contract called with the arguments its
\* own signature takes
Strategy(name, lot, bal, hellos, timestamp, reward) ==
    CASE name = "market_share"     -> market_share(lot, bal, reward)
      [] name = "market_fixed"     -> market_fixed(lot, bal)
      [] name = "hello_shares"     -> hello_shares(lot, hellos)
      [] name = "hello_fixed"      -> hello_fixed(lot, hellos)
      [] name = "hello_fixed_last" -> hello_fixed_last(lot, hellos, timestamp)

\* the names hasattr() finds on a pos Contract
PosAttributes == AllowedMethods \cup
    {"Hello", "get_block_reward", "update_lottery", "none",
     "n", "private", "balances", "all_hellos", "lottery", "trans_reward",
     "decay", "update"}

\* Contract.update_lottery: func(block) passes the block to the method found in
\* allowed_methods; only hello_fixed_last(self, block) takes one, the other
\* four are defined as f(self) and the call is a TypeError.  A name outside
\* allowed_methods is called without arguments: none() returns, Hello() lacks
\* its argument and a state variable is not callable (TypeError).
update_lottery(lot, bal, hellos, timestamp, reward, name) ==
    IF name \notin PosAttributes THEN Done(lot)
    ELSE IF name = "hello_fixed_last" THEN hello_fixed_last(lot, hellos, timestamp)
    ELSE IF name \in AllowedMethods THEN Raised(lot, "TypeError")
    ELSE IF name = "none" THEN Done(lot)
    ELSE Raised(lot, "TypeError")

PosUpdateNames == AllowedMethods \cup {"none", "connectivity_Index", "decay", "Hello"}

\* Contract.__init__ of scs/pos.py with state_variables = None.  The share
\* strategies give a target of three tickets, or move tickets both ways, only
\* among three participants.
InitPos ==
    /\ update \in PosUpdateNames
    /\ num_robots = IF update \in {"hello_shares", "market_share"}
                    THEN ShareRobots ELSE PosRobots
    /\ all_hellos = <<>>
    /\ all_peers = <<>>
    /\ connectivity = <<>>
    /\ lottery = [k \in 1..num_robots |-> gen_enode(k)]
    /\ balances = <<>>
    /\ trans_reward \in RewardChoices
    /\ decay \in {50}
    /\ last = NoCall
    /\ IdleController
    /\ twin = NoTwin

\* The inputs each configuration is explored with: the strategies read either
\* the balances (no greeting is drawn) or the greetings, hello_fixed_last alone
\* reads timestamps, and hello_fixed needs 3 * HelloPrice greetings for a
\* target two tickets above the ticket every robot starts with.
HelloCap ==
    CASE update = "hello_fixed"      -> MaxFixedHellos
      [] update = "hello_shares"     -> IF num_robots = SwarmRobots
                                        THEN MaxSwarmHellos ELSE MaxShareHellos
      [] update = "hello_fixed_last" -> MaxHellos
      [] update \in MarketNames      -> 0
      [] OTHER                       -> 1

PosTimes ==
    CASE update = "hello_fixed_last" /\ decay \in WindowDecays -> WindowTimes
      [] update = "hello_fixed_last"                           -> LotteryTimes
      [] OTHER                                                 -> {55}

BalanceValues == IF update \in MarketNames THEN {0, 10, 30} ELSE {10}

\* a Hello transaction of a block is applied; the greeter is the next robot
\* of the ring
PosHello ==
    \E neighbor \in Robots(num_robots), t \in PosTimes :
        LET sender == (neighbor % num_robots) + 1
        IN  /\ NumRecords(all_hellos) < HelloCap
            /\ all_hellos' = Hello(all_hellos, neighbor, sender, t)
            /\ last' = [NoCall EXCEPT !.op = "Hello", !.arg = neighbor,
                                      !.sender = sender, !.timestamp = t]
            /\ UNCHANGED <<ctlvars, twin>>
            /\ UNCHANGED <<num_robots, all_peers, connectivity, lottery, balances,
                           trans_reward, decay, update>>

\* self.balances[id] = value
SetBalance(bal, id, value) ==
    IF id \in KeySet(bal) THEN [bal EXCEPT ![Idx(bal, id)][2] = value]
                          ELSE Append(bal, <<id, value>>)

\* the node library credits or debits the balance of a robot (block reward,
\* transfers)
PosBalance ==
    \E id \in Robots(num_robots), value \in BalanceValues :
        /\ balances' = SetBalance(balances, id, value)
        /\ balances' # balances
        /\ last' = [NoCall EXCEPT !.op = "balance"]
        /\ UNCHANGED <<ctlvars, twin>>
        /\ UNCHANGED <<num_robots, all_hellos, all_peers, connectivity, lottery,
                       trans_reward, decay, update>>

\* Contract.get_block_reward of scs/pos.py: update_lottery(block), then
\* len(block.data) * trans_reward; an exception of the update ends the call
PosGetBlockReward ==
    \E t \in PosTimes, ntx \in 0..MaxTx :
        LET u == update_lottery(lottery, balances, all_hellos, t, trans_reward, update)
        IN  /\ lottery' = u.lottery
            /\ last' = [NoCall EXCEPT
                          !.op = "get_block_reward", !.timestamp = t, !.ntx = ntx,
                          !.err = u.err,
                          !.reward = IF u.err = "" THEN ntx * trans_reward ELSE 0,
                          !.steps = IF u.err = "" THEN <<"update", "reward">>
                                                  ELSE <<"update">>,
                          !.pre = TicketCounts(lottery, num_robots),
                          !.calls = InARow("get_block_reward", t)]
            /\ UNCHANGED <<ctlvars, twin>>
            /\ UNCHANGED <<num_robots, all_hellos, all_peers, connectivity, balances,
                           trans_reward, decay, update>>

\* the configured strategy method is called on the contract directly
PosStrategy ==
    \E t \in PosTimes :
        /\ update \in AllowedMethods
        /\ LET u == Strategy(update, lottery, balances, all_hellos, t, trans_reward)
           IN  /\ lottery' = u.lottery
               /\ last' = [NoCall EXCEPT !.op = update, !.timestamp = t,
                                         !.err = u.err,
                                         !.pre = TicketCounts(lottery, num_robots),
                                         !.calls = InARow(update, t)]
        /\ UNCHANGED <<ctlvars, twin>>
        /\ UNCHANGED <<num_robots, all_hellos, all_peers, connectivity, balances,
                       trans_reward, decay, update>>

NextPos == PosHello \/ PosBalance \/ PosGetBlockReward \/ PosStrategy

SpecPos == InitPos /\ [][NextPos]_vars

(***************************************************************************)
(* controllers/main.py : peering pass and experiment state machine         *)
(***************************************************************************)
MaxHelloTx == 2
PeeringRate == 10

\* the radio neighbours of the robot (robot 1) and what a neighbour may
\* advertise: its total difficulty (data[1:2]) and its mempool hash (data[3])
NeighborIds == {2, 3}

LocalView == [td |-> 1, mempool |-> 0]

NeighborData == {[td |-> 1, mempool |-> 0], [td |-> 2, mempool |-> 0],
                 [td |-> 0, mempool |-> 1]}

\* the values erb.peers can take: at most one Peer per neighbour id
ErbPeers == {nbrs \in SUBSET [id : NeighborIds, data : NeighborData] :
                \A a, b \in nbrs : a.id = b.id => a = b}

NoFault == [kind |-> "none", done |-> {}, at |-> gen_enode(0)]

\* an eligible set that looks at the total difficulty only
erb_enodes_by_difficulty(nbrs, local) ==
    {gen_enode(p.id) : p \in {q \in nbrs : q.data.td > local.td}}

\* erb_enodes of peering(): the neighbours whose advertised total difficulty is
\* above the local one or whose mempool hash differs from the local one
erb_enodes(nbrs, local) ==
    {gen_enode(p.id) : p \in {q \in nbrs : q.data.td > local.td
                                          \/ q.data.mempool # local.mempool}}

\* the exceptions add_peer / remove_peer can raise in a pass: the call on
\* enode `at` raises after the calls on `done` have returned
Faults(to_add, to_remove) ==
    {NoFault}
    \cup UNION {{[kind |-> "add", done |-> d, at |-> e] :
                    d \in SUBSET (to_add \ {e})} : e \in to_add}
    \cup UNION {{[kind |-> "remove", done |-> d, at |-> e] :
                    d \in SUBSET (to_remove \ {e})} : e \in to_remove}

\* a peering pass that never removes a peer
peering_no_remove(eligible, w3peers, consensusName, fault) ==
    LET to_add    == eligible \ w3peers
        to_remove == (w3peers \cup to_add) \ eligible
        changed   == to_add # {} \/ to_remove # {}
    IN  [peers |-> w3peers \cup to_add, raised |-> FALSE,
         to_add |-> to_add, to_remove |-> to_remove,
         called |-> to_add \cup to_remove,
         addpeer |-> IF consensusName = "ProofOfConnection" /\ changed
                     THEN {enode_to_id(e) : e \in w3peers \cup to_add} ELSE {}]

\* a peering pass that calls add_peer / remove_peer again after an exception,
\* the second call succeeding, before it gives up
peering_retry(eligible, w3peers, consensusName, fault) ==
    LET to_add    == eligible \ w3peers
        to_remove == (w3peers \cup to_add) \ eligible
    IN  IF fault.kind = "add"
        THEN [peers |-> w3peers \cup fault.done \cup {fault.at}, raised |-> TRUE,
              to_add |-> to_add, to_remove |-> {},
              called |-> fault.done \cup {fault.at}, addpeer |-> {}]
        ELSE IF fault.kind = "remove"
        THEN [peers |-> ((w3peers \cup to_add) \ fault.done) \ {fault.at},
              raised |-> TRUE,
              to_add |-> to_add, to_remove |-> to_remove,
              called |-> to_add \cup fault.done \cup {fault.at}, addpeer |-> {}]
        ELSE LET after   == (w3peers \cup to_add) \ to_remove
                 changed == to_add # {} \/ to_remove # {}
             IN  [peers |-> after, raised |-> FALSE,
                  to_add |-> to_add, to_remove |-> to_remove,
                  called |-> to_add \cup to_remove,
                  addpeer |-> IF consensusName = "ProofOfConnection" /\ changed
                              THEN {enode_to_id(e) : e \in after} ELSE {}]

\* a peering pass that announces the peers it had before the diff
peering_announces_old(eligible, w3peers, consensusName, fault) ==
    LET to_add    == eligible \ w3peers
        to_remove == (w3peers \cup to_add) \ eligible
    IN  IF fault.kind = "add"
        THEN [peers |-> w3peers \cup fault.done, raised |-> TRUE,
              to_add |-> to_add, to_remove |-> {},
              called |-> fault.done \cup {fault.at}, addpeer |-> {}]
        ELSE IF fault.kind = "remove"
        THEN [peers |-> (w3peers \cup to_add) \ fault.done, raised |-> TRUE,
              to_add |-> to_add, to_remove |-> to_remove,
              called |-> to_add \cup fault.done \cup {fault.at}, addpeer |-> {}]
        ELSE LET after   == (w3peers \cup to_add) \ to_remove
                 changed == to_add # {} \/ to_remove # {}
             IN  [peers |-> after, raised |-> FALSE,
                  to_add |-> to_add, to_remove |-> to_remove,
                  called |-> to_add \cup to_remove,
                  addpeer |-> IF consensusName = "ProofOfConnection" /\ changed
                              THEN {enode_to_id(e) : e \in w3peers} ELSE {}]

\* a peering pass that undoes its calls when one of them raises
peering_rolls_back(eligible, w3peers, consensusName, fault) ==
    LET to_add    == eligible \ w3peers
        to_remove == (w3peers \cup to_add) \ eligible
    IN  IF fault.kind = "add"
        THEN [peers |-> w3peers, raised |-> TRUE,
              to_add |-> to_add, to_remove |-> {},
              called |-> fault.done \cup {fault.at}, addpeer |-> {}]
        ELSE IF fault.kind = "remove"
        THEN [peers |-> w3peers, raised |-> TRUE,
              to_add |-> to_add, to_remove |-> to_remove,
              called |-> to_add \cup fault.done \cup {fault.at}, addpeer |-> {}]
        ELSE LET after   == (w3peers \cup to_add) \ to_remove
                 changed == to_add # {} \/ to_remove # {}
             IN  [peers |-> after, raised |-> FALSE,
                  to_add |-> to_add, to_remove |-> to_remove,
                  called |-> to_add \cup to_remove,
                  addpeer |-> IF consensusName = "ProofOfConnection" /\ changed
                              THEN {enode_to_id(e) : e \in after} ELSE {}]

\* peering(): add the eligible enodes that are no peers, remove the peers that
\* are not eligible, and under ProofOfConnection send one AddPeer transaction
\* per peer when anything changed.  add_peer(e) puts e into w3.peers and
\* remove_peer(e) takes it out; an exception of either leaves the routine.
peering(eligible, w3peers, consensusName, fault) ==
    LET to_add    == eligible \ w3peers
        to_remove == (w3peers \cup to_add) \ eligible
    IN  IF fault.kind = "add"
        THEN [peers |-> w3peers \cup fault.done, raised |-> TRUE,
              to_add |-> to_add, to_remove |-> {},
              called |-> fault.done \cup {fault.at}, addpeer |-> {}]
        ELSE IF fault.kind = "remove"
        THEN [peers |-> (w3peers \cup to_add) \ fault.done, raised |-> TRUE,
              to_add |-> to_add, to_remove |-> to_remove,
              called |-> to_add \cup fault.done \cup {fault.at}, addpeer |-> {}]
        ELSE LET after   == (w3peers \cup to_add) \ to_remove
                 changed == to_add # {} \/ to_remove # {}
             IN  [peers |-> after, raised |-> FALSE,
                  to_add |-> to_add, to_remove |-> to_remove,
                  called |-> to_add \cup to_remove,
                  addpeer |-> IF consensusName = "ProofOfConnection" /\ changed
                              THEN {enode_to_id(e) : e \in after} ELSE {}]

\* how a pass relates to the pass before it: there was none, it saw another
\* eligible set, or it saw the same one and completed ("same") or raised
PrevPass(before, eligible) ==
    IF before.prev = "init" THEN "none"
    ELSE IF before.eligible # eligible THEN "other"
    ELSE IF before.raised THEN "same_raised" ELSE "same"

\* a timer that is due only once its remaining time is below zero
TimerDue_late(elapsed) == PeeringRate - elapsed < 0

\* Timer.query() of clocks['peering'] after clock.time.step(): true, and the
\* timer reset, when rate - (time - tick) <= 0
TimerDue(elapsed) == PeeringRate - elapsed <= 0

\* a state machine whose RANDOM state always carries the neighbour of lowest id
\* it knows of, present or not
fsm_step_fixed_choice(cur, prev, carried, tx, sent, rcpts, nbrs, choice) ==
    IF cur \in {"IDLE", "RANDOM"}
    THEN IF nbrs # {}
         THEN [cur |-> "TRANSACT", prev |-> "RANDOM",
               carried |-> CHOOSE n \in NeighborIds : \A m \in NeighborIds : n <= m,
               tx |-> tx, sent |-> sent]
         ELSE [cur |-> "RANDOM", prev |-> IF cur = "IDLE" THEN "IDLE" ELSE prev,
               carried |-> IF cur = "IDLE" THEN 0 ELSE carried,
               tx |-> tx, sent |-> sent]
    ELSE LET tx1   == IF tx = NoTx
                      THEN [id |-> sent + 1, neighbor |-> carried] ELSE tx
             sent1 == IF tx = NoTx THEN sent + 1 ELSE sent
         IN  IF tx1.id \in rcpts
             THEN [cur |-> "RANDOM", prev |-> "TRANSACT", carried |-> 0,
                   tx |-> NoTx, sent |-> sent1]
             ELSE [cur |-> cur, prev |-> prev, carried |-> carried,
                   tx |-> tx1, sent |-> sent1]

\* a state machine whose TRANSACT state submits a Hello transaction on every
\* step, pending greeting or not
fsm_step_resend(cur, prev, carried, tx, sent, rcpts, nbrs, choice) ==
    IF cur \in {"IDLE", "RANDOM"}
    THEN IF nbrs # {}
         THEN [cur |-> "TRANSACT", prev |-> "RANDOM", carried |-> choice,
               tx |-> tx, sent |-> sent]
         ELSE [cur |-> "RANDOM", prev |-> IF cur = "IDLE" THEN "IDLE" ELSE prev,
               carried |-> IF cur = "IDLE" THEN 0 ELSE carried,
               tx |-> tx, sent |-> sent]
    ELSE LET tx1 == [id |-> sent + 1, neighbor |-> carried]
         IN  IF tx1.id \in rcpts
             THEN [cur |-> "RANDOM", prev |-> "TRANSACT", carried |-> 0,
                   tx |-> NoTx, sent |-> sent + 1]
             ELSE [cur |-> cur, prev |-> prev, carried |-> carried,
                   tx |-> tx1, sent |-> sent + 1]

\* a state machine that leaves TRANSACT as soon as any greeting of the robot
\* has a receipt
fsm_step_any_receipt(cur, prev, carried, tx, sent, rcpts, nbrs, choice) ==
    IF cur \in {"IDLE", "RANDOM"}
    THEN IF nbrs # {}
         THEN [cur |-> "TRANSACT", prev |-> "RANDOM", carried |-> choice,
               tx |-> tx, sent |-> sent]
         ELSE [cur |-> "RANDOM", prev |-> IF cur = "IDLE" THEN "IDLE" ELSE prev,
               carried |-> IF cur = "IDLE" THEN 0 ELSE carried,
               tx |-> tx, sent |-> sent]
    ELSE LET tx1   == IF tx = NoTx
                      THEN [id |-> sent + 1, neighbor |-> carried] ELSE tx
             sent1 == IF tx = NoTx THEN sent + 1 ELSE sent
         IN  IF rcpts # {}
             THEN [cur |-> "RANDOM", prev |-> "TRANSACT", carried |-> 0,
                   tx |-> NoTx, sent |-> sent1]
             ELSE [cur |-> cur, prev |-> prev, carried |-> carried,
                   tx |-> tx1, sent |-> sent1]

\* a state machine that goes back to IDLE when the greeting is confirmed
fsm_step_back_to_idle(cur, prev, carried, tx, sent, rcpts, nbrs, choice) ==
    IF cur \in {"IDLE", "RANDOM"}
    THEN IF nbrs # {}
         THEN [cur |-> "TRANSACT", prev |-> "RANDOM", carried |-> choice,
               tx |-> tx, sent |-> sent]
         ELSE [cur |-> "RANDOM", prev |-> IF cur = "IDLE" THEN "IDLE" ELSE prev,
               carried |-> IF cur = "IDLE" THEN 0 ELSE carried,
               tx |-> tx, sent |-> sent]
    ELSE LET tx1   == IF tx = NoTx
                      THEN [id |-> sent + 1, neighbor |-> carried] ELSE tx
             sent1 == IF tx = NoTx THEN sent + 1 ELSE sent
         IN  IF tx1.id \in rcpts
             THEN [cur |-> "IDLE", prev |-> "TRANSACT", carried |-> 0,
                   tx |-> NoTx, sent |-> sent1]
             ELSE [cur |-> cur, prev |-> prev, carried |-> carried,
                   tx |-> tx1, sent |-> sent1]

\* a state machine that greets the neighbour in the step that picks it
fsm_step_greets_at_once(cur, prev, carried, tx, sent, rcpts, nbrs, choice) ==
    IF cur \in {"IDLE", "RANDOM"}
    THEN IF nbrs # {}
         THEN [cur |-> "TRANSACT", prev |-> "RANDOM", carried |-> choice,
               tx |-> [id |-> sent + 1, neighbor |-> choice], sent |-> sent + 1]
         ELSE [cur |-> "RANDOM", prev |-> IF cur = "IDLE" THEN "IDLE" ELSE prev,
               carried |-> IF cur = "IDLE" THEN 0 ELSE carried,
               tx |-> tx, sent |-> sent]
    ELSE LET tx1   == IF tx = NoTx
                      THEN [id |-> sent + 1, neighbor |-> carried] ELSE tx
             sent1 == IF tx = NoTx THEN sent + 1 ELSE sent
         IN  IF tx1.id \in rcpts
             THEN [cur |-> "RANDOM", prev |-> "TRANSACT", carried |-> 0,
                   tx |-> NoTx, sent |-> sent1]
             ELSE [cur |-> cur, prev |-> prev, carried |-> carried,
                   tx |-> tx1, sent |-> sent1]

\* a state machine that stays in TRANSACT once it has greeted
fsm_step_no_return(cur, prev, carried, tx, sent, rcpts, nbrs, choice) ==
    IF cur \in {"IDLE", "RANDOM"}
    THEN IF nbrs # {}
         THEN [cur |-> "TRANSACT", prev |-> "RANDOM", carried |-> choice,
               tx |-> tx, sent |-> sent]
         ELSE [cur |-> "RANDOM", prev |-> IF cur = "IDLE" THEN "IDLE" ELSE prev,
               carried |-> IF cur = "IDLE" THEN 0 ELSE carried,
               tx |-> tx, sent |-> sent]
    ELSE [cur |-> cur, prev |-> prev, carried |-> carried,
          tx |-> IF tx = NoTx THEN [id |-> sent + 1, neighbor |-> carried] ELSE tx,
          sent |-> IF tx = NoTx THEN sent + 1 ELSE sent]

\* a state machine that waits in IDLE until a neighbour is in range
fsm_step_idle_waits(cur, prev, carried, tx, sent, rcpts, nbrs, choice) ==
    IF cur = "IDLE" /\ nbrs = {}
    THEN [cur |-> cur, prev |-> prev, carried |-> carried, tx |-> tx, sent |-> sent]
    ELSE IF cur \in {"IDLE", "RANDOM"}
    THEN IF nbrs # {}
         THEN [cur |-> "TRANSACT", prev |-> "RANDOM", carried |-> choice,
               tx |-> tx, sent |-> sent]
         ELSE [cur |-> cur, prev |-> prev, carried |-> carried,
               tx |-> tx, sent |-> sent]
    ELSE LET tx1   == IF tx = NoTx
                      THEN [id |-> sent + 1, neighbor |-> carried] ELSE tx
             sent1 == IF tx = NoTx THEN sent + 1 ELSE sent
         IN  IF tx1.id \in rcpts
             THEN [cur |-> "RANDOM", prev |-> "TRANSACT", carried |-> 0,
                   tx |-> NoTx, sent |-> sent1]
             ELSE [cur |-> cur, prev |-> prev, carried |-> carried,
                   tx |-> tx1, sent |-> sent1]

\* the state machine part of controlstep(): IDLE goes to RANDOM; RANDOM (also
\* when just entered) goes to TRANSACT carrying random.choice(erb.peers) when
\* erb.peers is not empty; TRANSACT submits the Hello transaction unless one is
\* pending and goes back to RANDOM when the pending one has a receipt.
\* FiniteStateMachine.setState sets prevState, currState and pass_along.
fsm_step(cur, prev, carried, tx, sent, rcpts, nbrs, choice) ==
    LET afterIdle == IF cur = "IDLE"
                     THEN [cur |-> "RANDOM", prev |-> "IDLE", carried |-> 0]
                     ELSE [cur |-> cur, prev |-> prev, carried |-> carried]
    IN  IF afterIdle.cur = "RANDOM"
        THEN IF nbrs # {}
             THEN [cur |-> "TRANSACT", prev |-> "RANDOM", carried |-> choice,
                   tx |-> tx, sent |-> sent]
             ELSE [cur |-> afterIdle.cur, prev |-> afterIdle.prev,
                   carried |-> afterIdle.carried, tx |-> tx, sent |-> sent]
        ELSE \* TRANSACT
             LET tx1   == IF tx = NoTx
                          THEN [id |-> sent + 1, neighbor |-> carried] ELSE tx
                 sent1 == IF tx = NoTx THEN sent + 1 ELSE sent
             IN  IF tx1.id \in rcpts
                 THEN [cur |-> "RANDOM", prev |-> "TRANSACT", carried |-> 0,
                       tx |-> NoTx, sent |-> sent1]
                 ELSE [cur |-> cur, prev |-> prev, carried |-> carried,
                       tx |-> tx1, sent |-> sent1]

ConsensusNames == {"ProofOfConnection", "ProofOfAuthority"}

\* the contract of a specification of the controller is not called
IdleContract ==
    /\ num_robots = NumRobots
    /\ all_hellos = <<>>
    /\ all_peers = <<>>
    /\ connectivity = <<>>
    /\ lottery = <<>>
    /\ balances = <<>>
    /\ trans_reward = 0
    /\ decay = 0
    /\ update = ""
    /\ last = NoCall

\* the module globals and init()
InitCtl ==
    /\ consensus \in ConsensusNames
    /\ startFlag = FALSE
    /\ currState = "IDLE"
    /\ prevState = "IDLE"
    /\ pass_along = 0
    /\ txs_hi = NoTx
    /\ hello_sent = 0
    /\ receipts = {}
    /\ w3_peers = {}
    /\ peering_elapsed = 0
    /\ pass = NoPass
    /\ obs = NoObs
    /\ teardown = NoTeardown
    /\ IdleContract
    /\ twin = NoTwin

\* controlstep(), first call: start the submodules, reset the clocks
FirstStep ==
    /\ ~startFlag
    /\ startFlag' = TRUE
    /\ peering_elapsed' = 0
    /\ obs' = NoObs
    /\ UNCHANGED <<consensus, currState, prevState, pass_along, txs_hi, hello_sent,
                   receipts, w3_peers, pass, teardown>>
    /\ UNCHANGED <<scvars, twin>>

\* controlstep(), every later call.  module.step() brings the radio neighbours
\* of this tick and the receipts of submitted transactions; then the clocks
\* step, the peering pass runs when its timer is due, and the state machine
\* steps unless the pass raised.
Tick(peerSets) ==
    /\ startFlag
    /\ \E nbrs \in peerSets,
          confirmed \in SUBSET ((1..hello_sent) \ receipts) :
        LET present  == {p.id : p \in nbrs}
            rcpts    == receipts \cup confirmed
            elapsed  == peering_elapsed + 1
            due      == TimerDue(elapsed)
            eligible == erb_enodes(nbrs, LocalView)
        IN  \E fault \in IF due
                         THEN Faults(eligible \ w3_peers, w3_peers \ eligible)
                         ELSE {NoFault},
               choice \in IF currState = "TRANSACT" \/ present = {}
                          THEN {0} ELSE present :
                LET p == IF due THEN peering(eligible, w3_peers, consensus, fault)
                                ELSE [peers |-> w3_peers, raised |-> FALSE]
                    f == IF p.raised
                         THEN [cur |-> currState, prev |-> prevState,
                               carried |-> pass_along, tx |-> txs_hi,
                               sent |-> hello_sent]
                         ELSE fsm_step(currState, prevState, pass_along, txs_hi,
                                       hello_sent, rcpts, present, choice)
                IN  /\ f.sent <= MaxHelloTx
                    /\ receipts' = rcpts
                    /\ peering_elapsed' = IF due THEN 0 ELSE elapsed
                    /\ w3_peers' = p.peers
                    /\ pass' = IF due
                               THEN [eligible |-> eligible,
                                     to_add |-> p.to_add, to_remove |-> p.to_remove,
                                     called |-> p.called, raised |-> p.raised,
                                     addpeer |-> p.addpeer,
                                     prev |-> PrevPass(pass, eligible)]
                               ELSE pass
                    /\ currState' = f.cur
                    /\ prevState' = f.prev
                    /\ pass_along' = f.carried
                    /\ txs_hi' = f.tx
                    /\ hello_sent' = f.sent
                    /\ obs' = [peering |-> due, raised |-> p.raised,
                               from |-> IF p.raised THEN "" ELSE currState,
                               candidates |-> IF p.raised \/ currState = "TRANSACT"
                                              THEN {} ELSE present,
                               pending |-> ~p.raised /\ currState = "TRANSACT"
                                           /\ txs_hi # NoTx,
                               hello |-> f.sent - hello_sent,
                               seen |-> IF due THEN nbrs ELSE {}]
    /\ UNCHANGED <<consensus, startFlag, teardown>>
    /\ UNCHANGED <<scvars, twin>>

\* controlstep() with any of the radio neighbourhoods of a swarm of three
ControlStep == Tick(ErbPeers)

NextCtl == FirstStep \/ ControlStep

SpecCtl == InitCtl /\ [][NextCtl]_vars

\* erb.peers in a swarm of two: nobody, or robot 2 advertising a chain ahead
\* of the local one
PairPeers == {{}, {[id |-> 2, data |-> [td |-> 2, mempool |-> 0]]}}

\* controlstep() of a robot in a swarm of two
ControlStepPair == Tick(PairPeers)

NextTicking == FirstStep \/ ControlStepPair

\* the controller when the simulator keeps calling controlstep(): the first
\* call is made, and a later call is made whenever one is possible
SpecTicking ==
    InitCtl /\ [][NextTicking]_vars
            /\ WF_vars(FirstStep) /\ WF_vars(ControlStepPair)

(***************************************************************************)
(* controllers/main.py : destroy()                                         *)
(***************************************************************************)
MaxBlocks == 2
MaxFaults == 2

\* the calls destroy() makes that can raise: a step, the log it is about ("" for
\* none) and the block it is about (0 for none)
Call(step, log, at) == [step |-> step, log |-> log, at |-> at]

LogNames == {"block", "sc"}

FaultPoints(n, debug) ==
    {Call(s, "", 0) : s \in {"stop_mining", "get_all_transactions", "makedirs",
                             "report"}}
    \cup (IF debug THEN {Call("print_state", "", 0)} ELSE {})
    \cup {Call(s, l, 0) : s \in {"open", "flush", "fsync", "close"}, l \in LogNames}
    \cup {Call("next_block", "", k) : k \in 1..n}
    \cup {Call("log", l, k) : l \in LogNames, k \in 1..n}

\* a call made, and whether it returned (ok) or raised
Attempt(step, log, at, faults) ==
    [step |-> step, log |-> log, at |-> at, ok |-> Call(step, log, at) \notin faults]

\* the row of one log for block k: written only if the log was opened, its
\* exception caught in the loop body
log_row(l, k, faults) ==
    IF Call("open", l, 0) \in faults THEN <<>>
    ELSE <<Attempt("log", l, k, faults)>>

\* `for block in w3.chain`: an exception of the iteration ends the loop in the
\* outer handler
RECURSIVE chain_rows(_, _, _)
chain_rows(k, n, faults) ==
    IF k > n THEN <<>>
    ELSE IF Call("next_block", "", k) \in faults
    THEN <<Attempt("next_block", "", k, faults)>>
    ELSE <<Attempt("next_block", "", k, faults)>>
         \o log_row("block", k, faults) \o log_row("sc", k, faults)
         \o chain_rows(k + 1, n, faults)

\* the finally clause for one log: flush, fsync (its exception passed over),
\* close, in one try; nothing for a log that was not opened
close_log(l, faults) ==
    IF Call("open", l, 0) \in faults THEN <<>>
    ELSE IF Call("flush", l, 0) \in faults
    THEN <<Attempt("flush", l, 0, faults)>>
    ELSE <<Attempt("flush", l, 0, faults), Attempt("fsync", l, 0, faults),
           Attempt("close", l, 0, faults)>>

\* a teardown whose logs are closed at the end of the loop over the chain
destroy_closes_after_loop(n, debug, faults) ==
    <<Attempt("stop_mining", "", 0, faults),
      Attempt("get_all_transactions", "", 0, faults)>>
    \o (IF debug THEN <<Attempt("print_state", "", 0, faults)>> ELSE <<>>)
    \o <<Attempt("makedirs", "", 0, faults),
         Attempt("open", "block", 0, faults), Attempt("open", "sc", 0, faults)>>
    \o chain_rows(1, n, faults)
    \o (IF \E k \in 1..n : Call("next_block", "", k) \in faults THEN <<>>
        ELSE close_log("block", faults) \o close_log("sc", faults))
    \o <<Attempt("report", "", 0, faults)>>
    \o (IF Call("report", "", 0) \in faults
        THEN <<[step |-> "report_plain", log |-> "", at |-> 0, ok |-> TRUE]>>
        ELSE <<>>)

\* destroy(): the calls made, in order, on a chain of n blocks when the calls
\* of `faults` raise
destroy(n, debug, faults) ==
    <<Attempt("stop_mining", "", 0, faults),
      Attempt("get_all_transactions", "", 0, faults)>>
    \o (IF debug THEN <<Attempt("print_state", "", 0, faults)>> ELSE <<>>)
    \o <<Attempt("makedirs", "", 0, faults),
         Attempt("open", "block", 0, faults), Attempt("open", "sc", 0, faults)>>
    \o chain_rows(1, n, faults)
    \o close_log("block", faults) \o close_log("sc", faults)
    \o <<Attempt("report", "", 0, faults)>>
    \o (IF Call("report", "", 0) \in faults
        THEN <<[step |-> "report_plain", log |-> "", at |-> 0, ok |-> TRUE]>>
        ELSE <<>>)

\* the sets of at most MaxFaults calls that raise
FaultSets(n, debug) ==
    {f \in SUBSET FaultPoints(n, debug) : Cardinality(f) <= MaxFaults}

\* the simulator calls destroy() once, at the end of the experiment
Destroy ==
    /\ ~teardown.called
    /\ \E n \in 0..MaxBlocks, debug \in BOOLEAN :
         \E faults \in FaultSets(n, debug) :
            teardown' = [called |-> TRUE, blocks |-> n, debug |-> debug,
                         faults |-> faults, trace |-> destroy(n, debug, faults)]
    /\ UNCHANGED <<consensus, startFlag, currState, prevState, pass_along, txs_hi,
                   hello_sent, receipts, w3_peers, peering_elapsed, pass, obs>>
    /\ UNCHANGED <<scvars, twin>>

InitDestroy == InitCtl /\ consensus = "ProofOfConnection"

NextDestroy == Destroy

SpecDestroy == InitDestroy /\ [][NextDestroy]_vars

\* the contract of two robots at genesis, under either strategy of poc.py
InitLedger ==
    /\ num_robots = PosRobots
    /\ all_hellos = <<>>
    /\ all_peers = <<>>
    /\ connectivity = [e \in Enodes(PosRobots) |-> 0]
    /\ lottery = <<>>
    /\ balances = <<>>
    /\ trans_reward \in RewardChoices
    /\ decay = 30
    /\ update \in {"hello_index", "peer_index"}
    /\ last = NoCall
    /\ IdleController
    /\ twin = NoTwin

SpecLedger == InitLedger /\ [][NextPoc]_vars

\* hello_shares in a swarm of six: every robot has been greeted once by the
\* next robot of the ring, and more greetings arrive
InitShares ==
    /\ update = "hello_shares"
    /\ num_robots = SwarmRobots
    /\ all_hellos = [k \in 1..SwarmRobots |->
                        <<k, << <<(k % SwarmRobots) + 1, 55>> >> >>]
    /\ all_peers = <<>>
    /\ connectivity = <<>>
    /\ lottery = [k \in 1..SwarmRobots |-> gen_enode(k)]
    /\ balances = <<>>
    /\ trans_reward \in RewardChoices
    /\ decay = 50
    /\ last = NoCall
    /\ IdleController
    /\ twin = NoTwin

NextShares == PosHello \/ PosStrategy

SpecShares == InitShares /\ [][NextShares]_vars

\* hello_fixed_last on contracts configured with another decay than 200
InitLast ==
    /\ update = "hello_fixed_last"
    /\ num_robots = PosRobots
    /\ all_hellos = <<>>
    /\ all_peers = <<>>
    /\ connectivity = <<>>
    /\ lottery = [k \in 1..PosRobots |-> gen_enode(k)]
    /\ balances = <<>>
    /\ trans_reward \in RewardChoices
    /\ decay \in WindowDecays
    /\ last = NoCall
    /\ IdleController
    /\ twin = NoTwin

NextLast == PosHello \/ PosGetBlockReward

SpecLast == InitLast /\ [][NextLast]_vars

\* the two strategies that share out a total among three robots, called on
\* the contract directly
InitOrder == InitPos /\ update \in {"market_share", "hello_shares"}

NextOrder == PosHello \/ PosBalance \/ PosStrategy

SpecOrder == InitOrder /\ [][NextOrder]_vars

(***************************************************************************)
(* Two nodes applying one chain: every node replays the transactions and   *)
(* the get_block_reward calls of the chain, in chain order, on its own     *)
(* contract instance and at its own pace.                                  *)
(***************************************************************************)
MaxChain == 3

\* the strategies that get_block_reward runs to completion
TwinUpdateNames == {"hello_index", "peer_index", "hello_fixed_last"}

TwinTimes == IF update = "hello_fixed_last" THEN LotteryTimes ELSE {10, 55}

\* the calls a block can bring: Hello and AddPeer transactions of a robot about
\* the other one (AddPeer is a handler of poc.py only), and get_block_reward
TwinCalls ==
    {[op |-> "Hello", arg |-> n, sender |-> (n % PosRobots) + 1, timestamp |-> t] :
        n \in Robots(PosRobots), t \in TwinTimes}
    \cup {[op |-> "AddPeer", arg |-> n, sender |-> (n % PosRobots) + 1, timestamp |-> t] :
        n \in {m \in Robots(PosRobots) : update # "hello_fixed_last"}, t \in TwinTimes}
    \cup {[op |-> "get_block_reward", arg |-> 0, sender |-> 0, timestamp |-> t] :
        t \in TwinTimes}

\* the contract state of the first node
Snapshot == [all_hellos |-> all_hellos, all_peers |-> all_peers,
             connectivity |-> connectivity, lottery |-> lottery]

\* a call of the chain applied to a contract instance
ApplyCall(st, call) ==
    CASE call.op = "Hello" ->
            [st EXCEPT !.all_hellos = Hello(@, call.arg, call.sender, call.timestamp)]
      [] call.op = "AddPeer" ->
            [st EXCEPT !.all_peers = AddPeer(@, call.arg, call.sender, call.timestamp)]
      [] call.op = "get_block_reward" ->
            IF update = "hello_fixed_last"
            THEN [st EXCEPT !.lottery =
                    update_lottery(@, balances, st.all_hellos, call.timestamp,
                                   trans_reward, update).lottery]
            ELSE [st EXCEPT !.connectivity =
                    update_connectivity(@, st.all_hellos, st.all_peers,
                                        call.timestamp, decay, update).connectivity]

\* two instances of the same contract at genesis
InitTwin ==
    /\ update \in TwinUpdateNames
    /\ num_robots = PosRobots
    /\ all_hellos = <<>>
    /\ all_peers = <<>>
    /\ connectivity = IF update = "hello_fixed_last" THEN <<>>
                      ELSE [e \in Enodes(PosRobots) |-> 0]
    /\ lottery = IF update = "hello_fixed_last"
                 THEN [k \in 1..PosRobots |-> gen_enode(k)] ELSE <<>>
    /\ balances = <<>>
    /\ trans_reward \in RewardChoices
    /\ decay = 30
    /\ last = NoCall
    /\ IdleController
    /\ twin = [NoTwin EXCEPT !.state = Snapshot]

\* a block brings one more call
TwinExtend ==
    \E call \in TwinCalls :
        /\ Len(twin.chain) < MaxChain
        /\ twin' = [twin EXCEPT !.chain = Append(@, call)]
        /\ UNCHANGED <<scvars, ctlvars>>

\* the first node applies its next call of the chain
TwinApplyFirst ==
    /\ twin.a < Len(twin.chain)
    /\ LET call == twin.chain[twin.a + 1]
           st   == ApplyCall(Snapshot, call)
       IN  /\ all_hellos' = st.all_hellos
           /\ all_peers' = st.all_peers
           /\ connectivity' = st.connectivity
           /\ lottery' = st.lottery
           /\ last' = [NoCall EXCEPT !.op = call.op, !.arg = call.arg,
                                     !.sender = call.sender,
                                     !.timestamp = call.timestamp]
    /\ twin' = [twin EXCEPT !.a = @ + 1]
    /\ UNCHANGED <<num_robots, balances, trans_reward, decay, update>>
    /\ UNCHANGED ctlvars

\* the second node applies its next call of the chain
TwinApplySecond ==
    /\ twin.b < Len(twin.chain)
    /\ twin' = [twin EXCEPT !.b = @ + 1,
                            !.state = ApplyCall(@, twin.chain[twin.b + 1])]
    /\ UNCHANGED <<scvars, ctlvars>>

NextTwin == TwinExtend \/ TwinApplyFirst \/ TwinApplySecond

SpecTwin == InitTwin /\ [][NextTwin]_vars

(***************************************************************************)
(* Claims                                                                  *)
(***************************************************************************)
Updated == last.op = "get_block_reward" /\ last.err = ""

\* C1: after a hello_index update at block timestamp T, every robot i with
\* recorded greetings has connectivity[enode(i)] = the number of its greetings
\* with t > T - decay (strictly: one at exactly T - decay is not counted).
C1_HelloIndexCountsWindow ==
    (update = "hello_index" /\ Updated) =>
        \A k \in 1..Len(all_hellos) :
            connectivity[gen_enode(all_hellos[k][1])] =
                Cardinality({m \in 1..Len(all_hellos[k][2]) :
                    all_hellos[k][2][m][2] > last.timestamp - decay})

\* a robot greeted twice, once exactly at T - decay and once inside the
\* window, counts one greeting after the update
C1_Witness ==
    /\ update = "hello_index" /\ Updated
    /\ \E k \in 1..Len(all_hellos) :
        /\ Len(all_hellos[k][2]) = 2
        /\ all_hellos[k][2][1][2] = last.timestamp - decay
        /\ all_hellos[k][2][2][2] > last.timestamp - decay
        /\ connectivity[gen_enode(all_hellos[k][1])] = 1

C2_Scenario ==
    /\ num_robots = 3
    /\ update = "hello_index"
    /\ all_hellos = << <<1, << <<2, 10>>, <<2, 40>> >> >> >>
    /\ Updated /\ last.timestamp = 55

\* C2: 3 robots, hello_index; robot 2 greets robot 1 at t=10 and t=40, then
\* get_block_reward with block timestamp 55: connectivity[1] is 1 with
\* decay=30 and 2 with decay=50; connectivity[2] and connectivity[3] stay 0.
C2_EndToEnd ==
    C2_Scenario =>
        /\ decay = 30 => connectivity[gen_enode(1)] = 1
        /\ decay = 50 => connectivity[gen_enode(1)] = 2
        /\ connectivity[gen_enode(2)] = 0
        /\ connectivity[gen_enode(3)] = 0

C2_Witness == C2_Scenario /\ decay = 30 /\ connectivity[gen_enode(1)] = 1

\* C3: from genesis, when robot A alone records B as a peer inside the decay
\* window, the peer_index update raises connectivity[B] to 1 and leaves
\* connectivity[A] at 0.
C3_IncomingOnly ==
    ( /\ update = "peer_index" /\ Updated
      /\ Len(all_peers) = 1
      /\ Len(all_peers[1][2]) = 1
      /\ all_peers[1][2][1][1] # all_peers[1][1]
      /\ all_peers[1][2][1][2] > last.timestamp - decay )
    => /\ connectivity[gen_enode(all_peers[1][2][1][1])] = 1
       /\ connectivity[gen_enode(all_peers[1][1])] = 0

\* the robots that observed A inside the window of the last update
Observers(A) ==
    {B \in Robots(num_robots) \ {A} :
        /\ B \in KeySet(all_peers)
        /\ \E m \in 1..Len(Get(all_peers, B)) :
              /\ Get(all_peers, B)[m][1] = A
              /\ Get(all_peers, B)[m][2] > last.timestamp - decay}

\* C4: after a peer_index update at block timestamp T, connectivity[A] of every
\* robot A of the population is the number of distinct robots B # A whose
\* peer-observation list holds (A, t) with t > T - decay.
C4_PeerIndexCountsObservers ==
    (update = "peer_index" /\ Updated) =>
        \A A \in Robots(num_robots) :
            connectivity[gen_enode(A)] = Cardinality(Observers(A))

\* a call of a lottery update: a strategy method, or get_block_reward
UpdateCall(l) == l.op \in AllowedMethods \/ l.op = "get_block_reward"

FullRatchetNames == {"market_share", "hello_shares", "hello_fixed", "hello_fixed_last"}

\* the statement of C5 as claimed: a second update in a row (same ledger,
\* balances and block timestamp) leaves every ticket count as the first call
\* left it, for every ticket-based strategy.
C5_IdempotentAll ==
    [][ (UpdateCall(last') /\ last'.calls = 2) =>
            TicketCounts(lottery', num_robots) = TicketCounts(lottery, num_robots) ]_vars

\* C5 (amended): a second update in a row leaves every ticket count unchanged
\* for market_share, hello_shares, hello_fixed and hello_fixed_last (and for
\* get_block_reward); a second market_fixed call adds one more ticket to each
\* participant still below floor(balance / 10) and leaves the others unchanged.
C5_IdempotentFullRatchet ==
    [][ (UpdateCall(last') /\ last'.calls = 2) =>
            IF last'.op = "market_fixed"
            THEN \A i \in Robots(num_robots) :
                    Count(lottery', gen_enode(i)) =
                        IF /\ i \in KeySet(balances)
                           /\ Count(lottery, gen_enode(i)) < Get(balances, i) \div TicketPrice
                        THEN Count(lottery, gen_enode(i)) + 1
                        ELSE Count(lottery, gen_enode(i))
            ELSE TicketCounts(lottery', num_robots) = TicketCounts(lottery, num_robots)
      ]_vars

\* a full-ratchet strategy called twice in a row on a lottery it had raised
\* above one ticket
C5_Witness ==
    /\ last.op \in FullRatchetNames /\ last.calls = 2 /\ last.err = ""
    /\ last.pre = TicketCounts(lottery, num_robots)
    /\ \E i \in Robots(num_robots) : Count(lottery, gen_enode(i)) >= 2

\* C6: once an enode holds at least one ticket, no update (whatever the
\* balances, greetings, block timestamp or computed target) takes its last one.
C6_FloorOfOneTicket ==
    [][ \A i \in Robots(num_robots) :
            Count(lottery, gen_enode(i)) >= 1 => Count(lottery', gen_enode(i)) >= 1
      ]_vars

\* market_fixed found two or more tickets with a robot whose balance is 0
\* (target 0) and left it exactly one
C6_Witness ==
    /\ last.op = "market_fixed" /\ last.err = ""
    /\ \E i \in Robots(num_robots) :
        /\ i \in KeySet(balances) /\ Get(balances, i) = 0
        /\ last.pre[i] >= 2
        /\ Count(lottery, gen_enode(i)) = 1

C8_RandomToTransact ==
    obs.from = "RANDOM" =>
        IF obs.candidates # {}
        THEN /\ currState = "TRANSACT"
             /\ pass_along \in obs.candidates
             /\ Cardinality(obs.candidates) = 1 => obs.candidates = {pass_along}
        ELSE currState = "RANDOM"

C8_Witness ==
    /\ obs.from = "RANDOM"
    /\ prevState = "RANDOM"
    /\ currState = "TRANSACT"
    /\ obs.candidates = {3}
    /\ pass_along = 3

\* the Hello transactions submitted whose receipt has not been confirmed
Outstanding == (1..hello_sent) \ receipts

\* C9: in every reachable state at most one submitted Hello transaction is
\* without a receipt, and a TRANSACT step taken while a greeting is pending
\* submits no transaction.
C9_AtMostOneOutstanding ==
    /\ Cardinality(Outstanding) <= 1
    /\ obs.pending => obs.hello = 0

C9_Witness ==
    /\ obs.pending
    /\ currState = "TRANSACT"
    /\ txs_hi.id = 2
    /\ Outstanding = {2}

\* C10: get_block_reward(block) returns len(block.data) * trans_reward, the
\* update having run before the reward is computed.
C10_RewardAfterUpdate ==
    last.op = "get_block_reward" =>
        /\ last.err = ""
        /\ last.steps = <<"update", "reward">>
        /\ last.reward = last.ntx * trans_reward

\* the strategy names the contracts support
SupportedNames == {"hello_index", "peer_index", "none"} \cup AllowedMethods

\* C11: get_block_reward never ends in an error, whatever the contract, the
\* configured strategy and the state (genesis included): it returns a reward.
C11_AlwaysSucceeds ==
    (last.op = "get_block_reward" /\ update \in SupportedNames) =>
        /\ last.err \notin {"ZeroDivisionError", "TypeError", "AttributeError"}
        /\ last.steps = <<"update", "reward">>

\* C12: with a configured name that is no supported strategy (the name of
\* another attribute included) get_block_reward changes no contract state,
\* raises no error and returns the reward.
C12_UnknownNameIsNoOp ==
    [][ (last'.op = "get_block_reward" /\ update \notin SupportedNames) =>
            /\ last'.err = ""
            /\ last'.reward = last'.ntx * trans_reward
            /\ UNCHANGED <<all_hellos, all_peers, connectivity, lottery, balances>>
      ]_vars

\* C13: with the name of a supported strategy configured, the update entry
\* point runs that strategy on the block to completion, without an error.
C13_SupportedStrategyRuns ==
    [][ last'.op = "get_block_reward" =>
            /\ update \in AllowedMethods =>
                  /\ last'.err = ""
                  /\ lottery' = Strategy(update, lottery, balances, all_hellos,
                                         last'.timestamp, trans_reward).lottery
            /\ update = "hello_index" =>
                  /\ last'.err = ""
                  /\ connectivity' = hello_index(connectivity, all_hellos,
                                                 last'.timestamp, decay)
            /\ update = "peer_index" =>
                  /\ last'.err = ""
                  /\ connectivity' = peer_index(connectivity, all_peers,
                                                last'.timestamp, decay)
      ]_vars

C15_PeersAreEligible ==
    (obs.peering /\ ~obs.raised) =>
        /\ w3_peers = pass.eligible
        /\ obs.from \in {"IDLE", "RANDOM"} =>
               {enode_to_id(e) : e \in w3_peers} \subseteq obs.candidates

\* a completed pass that added one neighbour and removed another
C15_Witness ==
    /\ obs.peering /\ ~obs.raised
    /\ pass.to_add # {} /\ pass.to_remove # {}
    /\ w3_peers = pass.eligible
    /\ obs.from = "RANDOM"

\* C16: a pass in which add_peer or remove_peer raises ends the tick: the
\* failed call has changed nothing and is not made again, no call is made on
\* another enode after it, no AddPeer transaction is sent, and the state
\* machine of the experiment does not step in that tick.
C16_FailureAbortsTick ==
    [][ (obs'.peering /\ obs'.raised) =>
            /\ pass'.raised
            /\ pass'.addpeer = {}
            /\ pass'.called \subseteq (pass'.to_add \cup pass'.to_remove)
            /\ \E e \in pass'.called :
                   /\ (e \in w3_peers') = (e \in w3_peers)
                   /\ (e \in w3_peers') # (e \in pass'.eligible)
            /\ \A e \in Enodes(NumRobots) \ pass'.called :
                   (e \in w3_peers') = (e \in w3_peers)
            /\ obs'.from = "" /\ obs'.hello = 0
            /\ UNCHANGED <<currState, prevState, pass_along, txs_hi, hello_sent>>
      ]_vars

\* add_peer has raised after another neighbour was added, under
\* ProofOfConnection, in a tick in which a neighbour could have been picked
C16_Witness ==
    /\ obs.peering /\ obs.raised
    /\ consensus = "ProofOfConnection"
    /\ Cardinality(pass.called) = 2
    /\ pass.to_add # {}
    /\ w3_peers # {} /\ w3_peers # pass.eligible
    /\ currState = "RANDOM"

\* the list a is the beginning of the list b
IsPrefix(a, b) == Len(a) <= Len(b) /\ SubSeq(b, 1, Len(a)) = a

\* every key of the ledger d is a key of e, with its list extended at the end
Extends(d, e) ==
    \A key \in KeySet(d) : key \in KeySet(e) /\ IsPrefix(Get(d, key), Get(e, key))

\* C17: the ledger is append-only: over every Hello, AddPeer and
\* get_block_reward call, each list all_hellos[n] and all_peers[s] keeps its
\* records, in their order, as the beginning of the list after the call, and
\* no key disappears.
C17_AppendOnly ==
    [][ Extends(all_hellos, all_hellos') /\ Extends(all_peers, all_peers') ]_vars

\* a robot has been greeted twice and an update has run since
C17_Witness ==
    /\ last.op = "get_block_reward"
    /\ update = "hello_index"
    /\ \E n \in KeySet(all_hellos) : Len(Get(all_hellos, n)) = 2

\* the records of the key in the ledger d, none when the key is absent
Records(d, key) == IF key \in KeySet(d) THEN Get(d, key) ELSE <<>>

\* the ledger e is the ledger d with the item added at the end of the list of
\* the key, every other list being the same
AppendedOnly(d, e, key, item) ==
    /\ KeySet(e) = KeySet(d) \cup {key}
    /\ Get(e, key) = Append(Records(d, key), item)
    /\ \A other \in KeySet(d) \ {key} : Get(e, other) = Get(d, other)

\* C18: Hello(neighbor) from sender s at time t adds exactly (s, t) at the end
\* of all_hellos[neighbor], created when absent, and AddPeer(p) from s at t
\* adds exactly (p, t) at the end of all_peers[s]; each handler leaves every
\* other list of the ledger, the connectivity map, the lottery and the
\* balances as they were.
C18_HandlersAppendOneRecord ==
    [][ /\ last'.op = "Hello" =>
            /\ AppendedOnly(all_hellos, all_hellos', last'.arg,
                            <<last'.sender, last'.timestamp>>)
            /\ UNCHANGED <<all_peers, connectivity, lottery, balances>>
        /\ last'.op = "AddPeer" =>
            /\ AppendedOnly(all_peers, all_peers', last'.sender,
                            <<last'.arg, last'.timestamp>>)
            /\ UNCHANGED <<all_hellos, connectivity, lottery, balances>>
      ]_vars

\* a second greeting of a robot, at another time than the first, after the
\* connectivity map has been filled
C18_Witness ==
    /\ last.op = "Hello"
    /\ Len(Records(all_hellos, last.arg)) = 2
    /\ Get(all_hellos, last.arg)[1][2] # last.timestamp
    /\ \E e \in DOMAIN connectivity : connectivity[e] >= 1

\* the larger and the smaller of two numbers
Larger(a, b) == IF a >= b THEN a ELSE b

Smaller(a, b) == IF a <= b THEN a ELSE b

\* C19: market_share, with avg = total balance / number of participants:
\* when avg < trans_reward the lottery stays as it is; otherwise every
\* participant i, with target = floor(balance[i] / avg) and owned = its
\* tickets before the update, holds max(target, min(owned, 1)) tickets after
\* it, and the tickets of every other enode are unchanged.
C19_MarketShareTargets ==
    [][ last'.op = "market_share" =>
            LET total == SumValues(balances, Len(balances))
                count == Len(balances)
            IN  IF total < trans_reward * count
                THEN lottery' = lottery
                ELSE /\ \A k \in 1..count :
                          LET enode  == gen_enode(balances[k][1])
                              target == (balances[k][2] * count) \div total
                              owned  == Count(lottery, enode)
                          IN  Count(lottery', enode)
                                  = Larger(target, Smaller(owned, 1))
                     /\ \A i \in Robots(num_robots) \ KeySet(balances) :
                          Count(lottery', gen_enode(i)) = Count(lottery, gen_enode(i))
      ]_vars

\* C20: market_fixed, with target = floor(balance[i] / 10) and no gate on the
\* market value: one call adds exactly one ticket to participant i when it
\* owns fewer than target (also when it is short of more than one) and none
\* otherwise, and when it owns more than target the same call removes
\* tickets down to max(target, 1).
C20_MarketFixedOneTicket ==
    [][ last'.op = "market_fixed" =>
            \A k \in 1..Len(balances) :
                LET enode  == gen_enode(balances[k][1])
                    target == balances[k][2] \div 10
                    owned  == Count(lottery, enode)
                    after  == Count(lottery', enode)
                IN  /\ owned < target => after = owned + 1
                    /\ owned > target => after = Larger(target, 1)
                    /\ owned = target => after = owned
      ]_vars

\* one call has given one ticket to a robot that was two short of its target
\* and has taken two from a robot whose balance had gone
C20_Witness ==
    /\ last.op = "market_fixed"
    /\ \E k \in 1..Len(balances) :
          /\ balances[k][2] = 30
          /\ last.pre[balances[k][1]] = 1
          /\ Count(lottery, gen_enode(balances[k][1])) = 2
    /\ \E k \in 1..Len(balances) :
          /\ balances[k][2] = 0
          /\ last.pre[balances[k][1]] = 3
          /\ Count(lottery, gen_enode(balances[k][1])) = 1

C22_HelloSharesTargets ==
    [][ last'.op = "hello_shares" =>
            LET count == Len(all_hellos)
                total == NumRecords(all_hellos)
            IN  IF total < count
                THEN lottery' = lottery
                ELSE \A k \in 1..count :
                        LET enode  == gen_enode(all_hellos[k][1])
                            target == (Len(all_hellos[k][2]) * count) \div total
                            owned  == Count(lottery, enode)
                        IN  Count(lottery', enode)
                                = Larger(target, Smaller(owned, 1))
      ]_vars

\* C23: hello_fixed_last at block timestamp T: target = floor(v / 2), v being
\* the number of greetings to robot i with a timestamp above T - 200, whatever
\* decay the contract is configured with; after the update robot i holds
\* max(target, min(owned, 1)) tickets.
C23_WindowOfTwoHundred ==
    [][ (last'.op = "get_block_reward" /\ update = "hello_fixed_last") =>
            \A k \in 1..Len(all_hellos) :
                LET enode  == gen_enode(all_hellos[k][1])
                    list   == all_hellos[k][2]
                    v      == Cardinality({j \in 1..Len(list) :
                                              list[j][2] > last'.timestamp - 200})
                    target == v \div 2
                    owned  == Count(lottery, enode)
                IN  Count(lottery', enode) = Larger(target, Smaller(owned, 1))
      ]_vars

\* a contract configured with decay 250 has taken a ticket from a robot whose
\* two oldest greetings are 200 old at the block, and so out of the window
C23_Witness ==
    /\ update = "hello_fixed_last" /\ decay = 250
    /\ last.op = "get_block_reward" /\ last.timestamp = 255
    /\ \E k \in 1..Len(all_hellos) :
          /\ Len(all_hellos[k][2]) = 4
          /\ CountAfter(all_hellos[k][2], 5) = 4
          /\ last.pre[all_hellos[k][1]] = 2
          /\ Count(lottery, gen_enode(all_hellos[k][1])) = 1

\* the mapping the configured strategy goes through: balances or greetings
Participants == IF update \in MarketNames THEN balances ELSE all_hellos

\* whether the configured strategy computes targets in this state (it has
\* something to share out)
HasTargets ==
    /\ update \in AllowedMethods
    /\ update = "market_share" => SumValues(balances, Len(balances)) > 0

\* the target the configured strategy computes for its k-th participant at a
\* block of the given timestamp
ComputedTarget(k, timestamp) ==
    CASE update = "market_share" ->
            FloorDivShare(balances[k][2], SumValues(balances, Len(balances)),
                          Len(balances))
      [] update = "market_fixed" -> balances[k][2] \div 10
      [] update = "hello_shares" ->
            FloorDivShare(Len(all_hellos[k][2]), NumRecords(all_hellos),
                          Len(all_hellos))
      [] update = "hello_fixed" -> Len(all_hellos[k][2]) \div 10
      [] update = "hello_fixed_last" ->
            CountAfter(all_hellos[k][2], timestamp - 200) \div 2

\* C24: the ratchet never overshoots: in one update of any ticket strategy the
\* ticket count of every enode moves only toward the target computed for it:
\* from owned <= target to a count between owned and target, from
\* owned > target to a count between max(target, 1) and owned; an enode with
\* no target keeps its tickets.
C24_NeverOvershoots ==
    [][ (last'.op \in AllowedMethods \cup {"get_block_reward"}) =>
            IF HasTargets
            THEN /\ \A k \in 1..Len(Participants) :
                      LET enode  == gen_enode(Participants[k][1])
                          target == ComputedTarget(k, last'.timestamp)
                          owned  == Count(lottery, enode)
                          new    == Count(lottery', enode)
                      IN  IF owned <= target
                          THEN owned <= new /\ new <= target
                          ELSE Larger(target, 1) <= new /\ new <= owned
                 /\ \A i \in Robots(num_robots) \ KeySet(Participants) :
                      Count(lottery', gen_enode(i)) = Count(lottery, gen_enode(i))
            ELSE TicketCounts(lottery', num_robots) = TicketCounts(lottery, num_robots)
      ]_vars

\* one update has taken a robot from three tickets down and another robot
\* from one ticket up by two
C24_Witness ==
    /\ last.op \in AllowedMethods
    /\ \E i, j \in Robots(num_robots) :
          /\ last.pre[i] = 3 /\ Count(lottery, gen_enode(i)) = 1
          /\ last.pre[j] = 1 /\ Count(lottery, gen_enode(j)) = 3

\* the orders in which a mapping of n keys can be gone through
Orders(n) == {p \in [1..n -> 1..n] : \A a, b \in 1..n : p[a] = p[b] => a = b}

\* the mapping d gone through in the order p
InOrder(d, p) == [k \in 1..Len(d) |-> d[p[k]]]

\* C25: for every ratchet strategy the ticket count of every enode after one
\* update is the same in whatever order the participants of the balances or
\* of the greetings are gone through.
C25_OrderIndependent ==
    [][ last'.op \in AllowedMethods =>
            \A p \in Orders(Len(Participants)) :
                TicketCounts(Strategy(update, lottery,
                                      IF update \in MarketNames
                                      THEN InOrder(balances, p) ELSE balances,
                                      IF update \in MarketNames
                                      THEN all_hellos ELSE InOrder(all_hellos, p),
                                      last'.timestamp, trans_reward).lottery,
                             num_robots)
                    = TicketCounts(lottery', num_robots)
      ]_vars

\* one update over three participants has taken tickets from one robot and
\* given tickets to another
C25_Witness ==
    /\ last.op \in AllowedMethods
    /\ Len(Participants) = 3
    /\ \E i, j \in Robots(num_robots) :
          /\ Count(lottery, gen_enode(i)) < last.pre[i]
          /\ Count(lottery, gen_enode(j)) > last.pre[j]

\* the AddPeer transactions the claim expects of the pass of this step: one
\* per peer connected after the diff when the consensus is ProofOfConnection
\* and the pass has added or removed a peer, none otherwise
ExpectedAddPeer ==
    IF consensus = "ProofOfConnection" /\ w3_peers' # w3_peers
    THEN {enode_to_id(e) : e \in w3_peers'} ELSE {}

\* C26: in a peering pass AddPeer transactions are sent if and only if the
\* consensus class is ProofOfConnection and the pass added or removed at least
\* one peer; then one AddPeer transaction is sent per peer connected after the
\* diff (none when the last peer was removed), and none for another consensus
\* class or an unchanged peer set.
C26_AddPeerEmission ==
    [][ obs'.peering => pass'.addpeer = ExpectedAddPeer ]_vars

\* C26 amended: in a peering pass that completes (no add_peer or remove_peer
\* call raises) AddPeer transactions are sent if and only if the consensus
\* class is ProofOfConnection and the pass added or removed at least one peer;
\* then one AddPeer transaction is sent per peer connected after the diff
\* (none when the last peer was removed), and none for another consensus class
\* or an unchanged peer set.  A pass that raises sends none.
C26_AddPeerEmissionAfterCompleted ==
    [][ obs'.peering =>
            pass'.addpeer = IF obs'.raised THEN {} ELSE ExpectedAddPeer ]_vars

\* a completed pass under ProofOfConnection has removed one peer and kept
\* another, which it has announced
C26_Witness ==
    /\ consensus = "ProofOfConnection"
    /\ obs.peering /\ ~obs.raised
    /\ pass.to_remove # {} /\ pass.to_add = {}
    /\ w3_peers # {}
    /\ pass.addpeer = {enode_to_id(e) : e \in w3_peers}

\* whether the radio neighbour p of a pass qualifies: it advertises a total
\* difficulty above the local one or a mempool hash other than the local one
Qualifies(p) ==
    p.data.td > LocalView.td \/ p.data.mempool # LocalView.mempool

\* the eligible set of the pass of this step holds exactly the radio
\* neighbours that qualify
EligibleIffQualifies ==
    \A id \in NeighborIds :
        gen_enode(id) \in pass'.eligible
            <=> \E p \in obs'.seen : p.id = id /\ Qualifies(p)

\* after the pass of this step no neighbour that does not qualify is
\* connected, and no peer at all when there is no radio neighbour
OthersRemoved ==
    /\ \A e \in w3_peers' :
          \E p \in obs'.seen : gen_enode(p.id) = e /\ Qualifies(p)
    /\ obs'.seen = {} => w3_peers' = {}

C28_PeeringCadence ==
    [][ /\ ~startFlag =>
              peering_elapsed' = 0 /\ ~obs'.peering /\ pass' = pass
        /\ startFlag =>
              /\ obs'.peering <=> (peering_elapsed + 1 = PeeringRate)
              /\ obs'.peering => peering_elapsed' = 0
              /\ ~obs'.peering =>
                    /\ peering_elapsed' = peering_elapsed + 1
                    /\ peering_elapsed' < PeeringRate
                    /\ pass' = pass
                    /\ w3_peers' = w3_peers ]_vars

\* the tick of a second peering pass, 10 ticks after the first one reset the
\* clock
C28_Witness ==
    /\ obs.peering
    /\ pass.prev # "none"
    /\ peering_elapsed = 0

\* C29: the machine starts in IDLE.  The first control step only sets the
\* start flag and resets the clocks: it makes no state transition, runs no
\* peering pass and submits no transaction.  The control step after it runs
\* no peering pass, evaluates the state machine and takes the transition
\* IDLE -> RANDOM whatever the neighbours are: the machine ends that step in
\* RANDOM entered from IDLE, or, with a neighbour in range, in TRANSACT
\* entered from RANDOM.  The machine is in IDLE at no later step.
C29_SetupThenLeaveIdle ==
    /\ currState = "IDLE" /\ ~startFlag
    /\ [][ /\ ~startFlag =>
                 /\ startFlag' /\ peering_elapsed' = 0
                 /\ currState' = "IDLE" /\ prevState' = prevState
                 /\ pass_along' = pass_along
                 /\ txs_hi' = txs_hi /\ hello_sent' = hello_sent
                 /\ w3_peers' = w3_peers /\ pass' = pass
                 /\ ~obs'.peering /\ obs'.from = "" /\ obs'.hello = 0
           /\ (startFlag /\ currState = "IDLE") =>
                 /\ peering_elapsed = 0 /\ pass.prev = "init"
                 /\ ~obs'.peering /\ obs'.from = "IDLE" /\ obs'.hello = 0
                 /\ \/ currState' = "RANDOM" /\ prevState' = "IDLE"
                       /\ obs'.candidates = {}
                    \/ currState' = "TRANSACT" /\ prevState' = "RANDOM"
                       /\ obs'.candidates # {}
           /\ currState # "IDLE" => currState' # "IDLE" ]_vars

\* the control step after setup met no neighbour: the machine has left IDLE
\* and is in RANDOM
C29_Witness ==
    /\ obs.from = "IDLE"
    /\ currState = "RANDOM"
    /\ prevState = "IDLE"
    /\ peering_elapsed = 1

\* the greeting of the TRANSACT visit in progress: the pending one, or the one
\* the step submits when none is pending
VisitGreeting == IF txs_hi # NoTx THEN txs_hi.id ELSE hello_sent'

\* C30: in a control step whose state machine is evaluated in TRANSACT, the
\* machine goes to RANDOM if and only if the greeting submitted during this
\* visit of TRANSACT has a receipt at that step; the transition clears the
\* pending greeting, and without a receipt the machine stays in TRANSACT with
\* that greeting pending.  A greeting is pending only in TRANSACT, so the
\* pending greeting is always the one of the visit in progress.
C30_TransactToRandom ==
    [][ /\ obs'.from = "TRANSACT" =>
              /\ VisitGreeting \in 1..hello_sent'
              /\ (currState' = "RANDOM") <=> (VisitGreeting \in receipts')
              /\ currState' = "RANDOM" =>
                    txs_hi' = NoTx /\ prevState' = "TRANSACT"
              /\ currState' # "RANDOM" =>
                    /\ currState' = "TRANSACT"
                    /\ txs_hi' # NoTx /\ txs_hi'.id = VisitGreeting
        /\ currState' # "TRANSACT" => txs_hi' = NoTx ]_vars

\* the second greeting of the robot was confirmed while the machine waited in
\* TRANSACT: the machine is back in RANDOM with no greeting pending
C30_Witness ==
    /\ obs.from = "TRANSACT"
    /\ currState = "RANDOM"
    /\ prevState = "TRANSACT"
    /\ txs_hi = NoTx
    /\ hello_sent = 2
    /\ receipts = {1, 2}

\* C31: at genesis the connectivity map has exactly one entry, of value 0, for
\* each of the num_robots enodes; afterwards only get_block_reward changes it
\* (Hello and AddPeer leave it as it is), no key is ever removed, and every
\* value is a non-negative integer.
C31_ConnectivityLifecycle ==
    /\ connectivity = [e \in Enodes(num_robots) |-> 0]
    /\ [][ /\ last'.op # "get_block_reward" => connectivity' = connectivity
           /\ DOMAIN connectivity \subseteq DOMAIN connectivity'
           /\ \A e \in DOMAIN connectivity' : connectivity'[e] \in Nat ]_vars

\* a robot scored 1 by an update has been greeted again: the map still shows 1
\* until the next update
C31_Witness ==
    /\ last.op = "Hello"
    /\ Len(Get(all_hellos, last.arg)) = 2
    /\ connectivity[gen_enode(last.arg)] = 1

\* destroy() made the call (step, log, at), whatever its outcome
Attempted(step, log, at) ==
    \E i \in 1..Len(teardown.trace) :
        /\ teardown.trace[i].step = step
        /\ teardown.trace[i].log = log
        /\ teardown.trace[i].at = at

\* destroy() made the call and it raised
Failed(step, log, at) ==
    \E i \in 1..Len(teardown.trace) :
        teardown.trace[i] = [step |-> step, log |-> log, at |-> at, ok |-> FALSE]

C33_NoneIsNoOp ==
    [][ (last'.op = "get_block_reward" /\ update = "none") =>
            /\ last'.err = ""
            /\ last'.reward = last'.ntx * trans_reward
            /\ UNCHANGED <<all_hellos, all_peers, connectivity, lottery, balances>>
      ]_vars

\* C34: in the lottery contract, whose genesis lottery holds one ticket for
\* each of the num_robots enodes, every enode of the population holds at least
\* one ticket in every reachable state, whatever the strategy and whatever the
\* transactions and block updates applied.
C34_EveryRobotKeepsATicket ==
    \A i \in Robots(num_robots) : Count(lottery, gen_enode(i)) >= 1

\* an update found a robot with two tickets or more and a target below one:
\* the robot is left with exactly one ticket
C34_Witness ==
    /\ last.op \in AllowedMethods \cup {"get_block_reward"}
    /\ last.err = ""
    /\ \E i \in Robots(num_robots) :
          /\ last.pre[i] >= 2
          /\ Count(lottery, gen_enode(i)) = 1

States == {"IDLE", "RANDOM", "TRANSACT"}

\* the state is one of the three, and a greeting is pending only in TRANSACT
WellFormedMachine ==
    /\ currState \in States
    /\ txs_hi # NoTx => currState = "TRANSACT"

\* C35: in every reachable state the machine is in IDLE, RANDOM or TRANSACT;
\* once it has left IDLE it never enters it again; and at the end of every
\* control step a greeting is pending (txs['hi'] is not None) only while the
\* state is TRANSACT.
C35_MachineStates ==
    /\ WellFormedMachine
    /\ [][ /\ WellFormedMachine'
           /\ currState # "IDLE" => currState' # "IDLE" ]_vars

\* the machine, back in RANDOM with its first greeting confirmed, met a
\* neighbour again and has submitted its second greeting in TRANSACT
C35_Witness ==
    /\ currState = "TRANSACT"
    /\ txs_hi.id = 2
    /\ obs.hello = 1
    /\ receipts = {1}

\* C36: each visit of TRANSACT submits exactly one Hello transaction.  The
\* step that goes from RANDOM to TRANSACT submits nothing and leaves no
\* greeting pending; the first step evaluated in TRANSACT, a later one,
\* submits one Hello whose target is the neighbour carried by the transition,
\* whoever is in range at that step; the following steps of the visit submit
\* nothing and keep the neighbour carried; and no step submits more than one
\* Hello.
C36_OneHelloPerVisit ==
    [][ /\ hello_sent' - hello_sent = obs'.hello
        /\ obs'.hello \in {0, 1}
        /\ obs'.from # "TRANSACT" => obs'.hello = 0
        /\ (currState # "TRANSACT" /\ currState' = "TRANSACT") =>
              /\ txs_hi' = NoTx
              /\ pass_along' \in obs'.candidates
        /\ (obs'.from = "TRANSACT" /\ txs_hi = NoTx) =>
              /\ obs'.hello = 1
              /\ txs_hi' = [id |-> hello_sent', neighbor |-> pass_along]
        /\ (obs'.from = "TRANSACT" /\ txs_hi # NoTx) => obs'.hello = 0
        /\ (obs'.from = "TRANSACT" /\ currState' = "TRANSACT") =>
              /\ pass_along' = pass_along
              /\ txs_hi'.neighbor = pass_along ]_vars

\* the first TRANSACT step of a visit fell on a peering step whose radio
\* neighbours did not include the neighbour carried: the Hello submitted
\* targets the neighbour carried
C36_Witness ==
    /\ obs.from = "TRANSACT"
    /\ obs.hello = 1
    /\ obs.peering
    /\ obs.seen # {}
    /\ txs_hi.neighbor = pass_along
    /\ pass_along \notin {p.id : p \in obs.seen}

\* every Hello transaction submitted eventually has a receipt
ReceiptsArrive ==
    \A i \in 1..MaxHelloTx : (hello_sent >= i) ~> (i \in receipts)

\* the robot is in TRANSACT with a greeting pending, or about to submit one
Greeting ==
    /\ currState = "TRANSACT"
    /\ txs_hi # NoTx \/ hello_sent < MaxHelloTx

\* C37: when control steps keep occurring and every submitted transaction
\* eventually gets a receipt, a robot in TRANSACT eventually returns to RANDOM;
\* and from a step on which the receipt of the pending greeting never arrives,
\* the robot stays in TRANSACT forever and submits no other Hello.
C37_GreetingLiveness ==
    /\ ReceiptsArrive => (Greeting ~> (currState = "RANDOM"))
    /\ \A i \in 1..MaxHelloTx :
          []((txs_hi.id = i /\ [](i \notin receipts))
                => [](currState = "TRANSACT" /\ txs_hi.id = i /\ hello_sent = i))

\* the robot is back in RANDOM, its second greeting confirmed after a wait of
\* a whole peering interval in TRANSACT
C37_Witness ==
    /\ obs.from = "TRANSACT"
    /\ obs.peering
    /\ currState = "RANDOM"
    /\ prevState = "TRANSACT"
    /\ receipts = {1, 2}
    /\ pass.prev # "none"

\* the latest greeting received by robot i is at least decay old at time t
AllGreetingsExpired(i, t) ==
    \A k \in 1..Len(Get(all_hellos, i)) : t >= Get(all_hellos, i)[k][2] + decay

\* C38: under hello_index, after every update by a block whose timestamp is at
\* least the latest greeting timestamp of a greeted robot plus decay, the
\* connectivity of that robot is 0; with no new greeting and increasing block
\* timestamps this is every update from the first such block onward.
C38_DecayToZero ==
    (update = "hello_index" /\ last.op = "get_block_reward") =>
        \A i \in KeySet(all_hellos) :
            AllGreetingsExpired(i, last.timestamp)
                => connectivity[gen_enode(i)] = 0

\* a block whose timestamp is exactly the greeting's plus decay has brought a
\* robot to 0 while a robot greeted later scores 1
C38_Witness ==
    /\ update = "hello_index"
    /\ last.op = "get_block_reward"
    /\ \E i, j \in KeySet(all_hellos) :
          /\ Get(all_hellos, i)[1][2] + decay = last.timestamp
          /\ connectivity[gen_enode(i)] = 0
          /\ connectivity[gen_enode(j)] = 1

\* enode e is a peer after the step exactly as it was before
Untouched(e) == (e \in w3_peers') <=> (e \in w3_peers)

\* C39: a peering pass in which add_peer or remove_peer raises is not rolled
\* back.  The calls that returned before the exception stay applied (an enode
\* added is a peer, an enode removed is not), the call that raised and the
\* calls not reached leave the peer set as it was, so that the peer set
\* differs from the eligible set after the failed pass; the peer set changes
\* in no step other than a peering pass, and a pass that completes leaves the
\* peer set equal to the eligible set.
C39_NoRollback ==
    [][ /\ (obs'.peering /\ obs'.raised) =>
              /\ \E at \in pass'.called :
                    /\ Untouched(at)
                    /\ \A e \in pass'.called \ {at} :
                          (e \in w3_peers') <=> (e \in pass'.eligible)
              /\ \A e \in (w3_peers \cup pass'.eligible) \ pass'.called :
                    Untouched(e)
              /\ w3_peers' # pass'.eligible
        /\ w3_peers' # w3_peers => obs'.peering
        /\ (obs'.peering /\ ~obs'.raised) => w3_peers' = pass'.eligible ]_vars

\* add_peer returned for one eligible neighbour and remove_peer raised: the
\* neighbour added stays a peer and the peer that is no longer eligible stays
\* connected
C39_Witness ==
    /\ obs.peering /\ obs.raised
    /\ pass.to_add # {}
    /\ pass.to_add \subseteq w3_peers
    /\ w3_peers \ pass.eligible # {}

====
